---- MODULE Spec2Model ----
(***************************************************************************)
(* AxelarX: the settlement engine (contracts/settlement) and the           *)
(* cross-chain bridge (contracts/bridge) as state machines.                *)
(*                                                                         *)
(* Every handler of the contracts is a pure operator from the contract     *)
(* state (a record of its views) to the state it leaves and the Result it  *)
(* returns; an action applies one handler to the current state.  A handler *)
(* that returns Err keeps the writes it made before the return: the views  *)
(* are mutated in place (state: &mut ...), and the handlers themselves     *)
(* never undo a write.                                                     *)
(***************************************************************************)
EXTENDS Integers, Sequences, FiniteSets, TLC

\* ------------------------------------------------------------------ bounds
MaxSettlements == 2
MaxTime == 2
MaxTimeout == 2
MaxAmount == 1
MaxSupply == 1

\* Option::None of a Timestamp
None == -1

Traders == {"alice", "bob"}
Accounts == Traders \cup {"carol"}
Assets == {"X", "Y"}
TradeIds == {7}
Timeouts == 1..MaxTimeout
Amounts == 1..MaxAmount

\* ------------------------------------------------------- MapView / QueueView
\* A MapView whose values are only ever read with
\* get(..).unwrap_or_default() (balances, escrowed_balances, collected_fees)
\* is the function it denotes: an absent key is the value 0.
\* MapView::get(..).unwrap_or_default()
GetOr0(map, key) == IF key \in DOMAIN map THEN map[key] ELSE 0

\* MapView::insert
MapInsert(map, key, value) ==
    [k \in (DOMAIN map) \cup {key} |-> IF k = key THEN value ELSE map[k]]

\* MapView::remove, on a map read with unwrap_or_default
MapRemove(map, key) == [map EXCEPT ![key] = 0]

\* MapView::remove, on a map whose reads test for the key
MapDelete(map, key) == [k \in (DOMAIN map) \ {key} |-> map[k]]

EmptyMap == [k \in {} |-> 0]

\* ------------------------------------------------------------- settlement
VARIABLES
    now,                 \* runtime.system_time()
    next_settlement_id,
    settlements,
    user_settlements,
    active_settlements,
    expiration_queue,
    balances,
    escrowed_balances,
    stats,
    net_deposited        \* history: per asset, deposits minus withdrawals

svars == <<now, next_settlement_id, settlements, user_settlements,
           active_settlements, expiration_queue, balances, escrowed_balances,
           stats, net_deposited>>

\* The settlement contract's views, as one value.
SState ==
    [next_settlement_id |-> next_settlement_id,
     settlements        |-> settlements,
     user_settlements   |-> user_settlements,
     active_settlements |-> active_settlements,
     expiration_queue   |-> expiration_queue,
     balances           |-> balances,
     escrowed_balances  |-> escrowed_balances,
     stats              |-> stats]

EscrowStateDefault == [is_escrowed |-> FALSE, amount |-> 0]

SettlementStatsDefault ==
    [total_settlements |-> 0, completed_settlements |-> 0,
     failed_settlements |-> 0, total_volume |-> 0]

Ok(st) == [st |-> st, res |-> "Ok"]
Err(st, e) == [st |-> st, res |-> e]

\* mutant: any signer passes for a party
IsPartyAnyone(caller, settlement) == TRUE

\* the caller is the settlement's maker or taker
IsParty(caller, settlement) ==
    caller = settlement.maker \/ caller = settlement.taker

\* mutant: a Completed settlement can be executed again
CanExecuteAgain(status) == status \in {"FullyEscrowed", "Completed"}

\* the status execute_settlement accepts
CanExecute(status) == status = "FullyEscrowed"

\* mutant: the expiry test off by one
IsPastExpiryLate(t, s) == t > s.expires_at + 1

\* now > settlement.expires_at
IsPastExpiry(t, s) == t > s.expires_at

\* req: the operation's fields (trade_id, maker, taker, maker_asset,
\* taker_asset, maker_amount, taker_amount, timeout_seconds)
initiate_settlement(st, t, req) ==
    LET settlement_id == st.next_settlement_id
        expires_at == t + req.timeout_seconds
        trade_id == req.trade_id
        maker == req.maker
        taker == req.taker
        maker_asset == req.maker_asset
        taker_asset == req.taker_asset
        maker_amount == req.maker_amount
        taker_amount == req.taker_amount
        settlement ==
            [id |-> settlement_id, trade_id |-> trade_id,
             maker |-> maker, taker |-> taker,
             maker_asset |-> maker_asset, taker_asset |-> taker_asset,
             maker_amount |-> maker_amount, taker_amount |-> taker_amount,
             maker_escrow |-> EscrowStateDefault,
             taker_escrow |-> EscrowStateDefault,
             status |-> "Pending",
             expires_at |-> expires_at, completed_at |-> None,
             failure_reason |-> "None"]
        us1 == MapInsert(st.user_settlements, maker,
                   Append(IF maker \in DOMAIN st.user_settlements
                          THEN st.user_settlements[maker] ELSE <<>>,
                          settlement_id))
        us2 == MapInsert(us1, taker,
                   Append(IF taker \in DOMAIN us1 THEN us1[taker] ELSE <<>>,
                          settlement_id))
    IN Ok([st EXCEPT
            !.settlements = MapInsert(@, settlement_id, settlement),
            !.active_settlements = @ \cup {settlement_id},
            !.user_settlements = us2,
            !.expiration_queue = Append(@, <<expires_at, settlement_id>>),
            !.stats.total_settlements = @ + 1,
            !.next_settlement_id = settlement_id + 1])

\* mutant: the credit without the removal of the escrow entry
release_escrow_keep(st, escrow_key, balance_key) ==
    [st EXCEPT
      !.balances = MapInsert(@, balance_key,
          GetOr0(st.balances, balance_key)
              + GetOr0(st.escrowed_balances, escrow_key))]

\* Credit an escrow entry to a free balance and clear the entry:
\*   balances.insert(&to, balance + escrowed); escrowed_balances.remove(&key)
release_escrow(st, escrow_key, balance_key) ==
    [st EXCEPT
      !.balances = MapInsert(@, balance_key,
          GetOr0(st.balances, balance_key)
              + GetOr0(st.escrowed_balances, escrow_key)),
      !.escrowed_balances = MapRemove(@, escrow_key)]

execute_settlement(st, t, settlement_id) ==
    IF settlement_id \notin DOMAIN st.settlements
    THEN Err(st, "SettlementNotFound")
    ELSE
    LET settlement == st.settlements[settlement_id] IN
    IF ~CanExecute(settlement.status)
    THEN Err(st, "InvalidStatus")
    ELSE IF IsPastExpiry(t, settlement)
    THEN Err([st EXCEPT !.settlements[settlement_id].status = "Expired"],
             "SettlementExpired")
    ELSE
    LET maker_escrow_key ==
            <<settlement_id, settlement.maker, settlement.maker_asset>>
        taker_balance_key == <<settlement.taker, settlement.maker_asset>>
        \* maker asset from escrow to taker
        st1 == release_escrow(st, maker_escrow_key, taker_balance_key)
        taker_escrow_key ==
            <<settlement_id, settlement.taker, settlement.taker_asset>>
        maker_balance_key == <<settlement.maker, settlement.taker_asset>>
        \* taker asset from escrow to maker
        st2 == release_escrow(st1, taker_escrow_key, maker_balance_key)
    IN Ok([st2 EXCEPT
            !.settlements[settlement_id].status = "Completed",
            !.settlements[settlement_id].completed_at = t,
            !.active_settlements = @ \ {settlement_id},
            !.stats.completed_settlements = @ + 1,
            !.stats.total_volume =
                @ + settlement.maker_amount + settlement.taker_amount])

\* mutant: no auto-execution
auto_execute_skip(st, t, settlement_id) == Ok(st)

\* confirm_escrow's tail: "Auto-execute if fully escrowed"
auto_execute(st, t, settlement_id) ==
    IF st.settlements[settlement_id].status = "FullyEscrowed"
    THEN execute_settlement(st, t, settlement_id)
    ELSE Ok(st)

confirm_escrow(st, t, caller, settlement_id) ==
    IF settlement_id \notin DOMAIN st.settlements
    THEN Err(st, "SettlementNotFound")
    ELSE
    LET settlement == st.settlements[settlement_id] IN
    IF IsPastExpiry(t, settlement)
    THEN Err(st, "SettlementExpired")
    ELSE IF caller = settlement.maker /\ settlement.maker_escrow.is_escrowed
    THEN Err(st, "AlreadyEscrowed")
    ELSE IF caller # settlement.maker /\ caller = settlement.taker
            /\ settlement.taker_escrow.is_escrowed
    THEN Err(st, "AlreadyEscrowed")
    ELSE IF ~IsParty(caller, settlement)
    THEN Err(st, "Unauthorized")
    ELSE
    LET is_maker == caller = settlement.maker
        asset == IF is_maker THEN settlement.maker_asset
                 ELSE settlement.taker_asset
        amount == IF is_maker THEN settlement.maker_amount
                  ELSE settlement.taker_amount
        balance_key == <<caller, asset>>
        current_balance == GetOr0(st.balances, balance_key)
    IN
    IF current_balance < amount
    THEN Err(st, "InsufficientBalance")
    ELSE
    LET escrow_key == <<settlement_id, caller, asset>>
        escrow_state == [is_escrowed |-> TRUE, amount |-> amount]
        updated ==
            IF is_maker
            THEN [settlement EXCEPT
                    !.maker_escrow = escrow_state,
                    !.status = IF settlement.taker_escrow.is_escrowed
                               THEN "FullyEscrowed" ELSE "MakerEscrowed"]
            ELSE [settlement EXCEPT
                    !.taker_escrow = escrow_state,
                    !.status = IF settlement.maker_escrow.is_escrowed
                               THEN "FullyEscrowed" ELSE "TakerEscrowed"]
        st1 == [st EXCEPT
                 !.balances = MapInsert(@, balance_key, current_balance - amount),
                 !.escrowed_balances = MapInsert(@, escrow_key, amount),
                 !.settlements[settlement_id] = updated]
    IN auto_execute(st1, t, settlement_id)

process_refund(st, settlement) ==
    LET maker_key == <<settlement.id, settlement.maker, settlement.maker_asset>>
        maker_balance_key == <<settlement.maker, settlement.maker_asset>>
        st1 == IF settlement.maker_escrow.is_escrowed
                  /\ GetOr0(st.escrowed_balances, maker_key) > 0
               THEN release_escrow(st, maker_key, maker_balance_key)
               ELSE st
        taker_key == <<settlement.id, settlement.taker, settlement.taker_asset>>
        taker_balance_key == <<settlement.taker, settlement.taker_asset>>
    IN IF settlement.taker_escrow.is_escrowed
          /\ GetOr0(st1.escrowed_balances, taker_key) > 0
       THEN release_escrow(st1, taker_key, taker_balance_key)
       ELSE st1

\* mutant: a finalized settlement can be cancelled again
CanCancelLoose(status) ==
    status \in {"Pending", "MakerEscrowed", "TakerEscrowed", "Expired"}

\* the statuses cancel_settlement accepts
CanCancel(status) == status \in {"Pending", "MakerEscrowed", "TakerEscrowed"}

cancel_settlement(st, caller, settlement_id) ==
    IF settlement_id \notin DOMAIN st.settlements
    THEN Err(st, "SettlementNotFound")
    ELSE
    LET settlement == st.settlements[settlement_id] IN
    IF ~IsParty(caller, settlement)
    THEN Err(st, "Unauthorized")
    ELSE IF ~CanCancel(settlement.status)
    THEN Err(st, "CannotCancel")
    ELSE
    LET st1 == process_refund(st, settlement)
    IN Ok([st1 EXCEPT
            !.settlements[settlement_id].status = "Cancelled",
            !.settlements[settlement_id].failure_reason = "reason",
            !.active_settlements = @ \ {settlement_id}])

claim_refund(st, t, caller, settlement_id) ==
    IF settlement_id \notin DOMAIN st.settlements
    THEN Err(st, "SettlementNotFound")
    ELSE
    LET loaded == st.settlements[settlement_id] IN
    IF ~IsParty(caller, loaded)
    THEN Err(st, "Unauthorized")
    ELSE
    LET refundable == loaded.status \in {"Expired", "Failed", "Cancelled"}
        mark_expired == ~refundable /\ IsPastExpiry(t, loaded)
        can_refund == refundable \/ mark_expired
        \* "Mark as expired": written to the local copy and to the view
        settlement == IF mark_expired
                      THEN [loaded EXCEPT !.status = "Expired"] ELSE loaded
        st0 == IF mark_expired
               THEN [st EXCEPT !.settlements[settlement_id] = settlement]
               ELSE st
    IN
    IF ~can_refund
    THEN Err(st0, "CannotCancel")
    ELSE
    LET as_maker == caller = settlement.maker /\ settlement.maker_escrow.is_escrowed
        as_taker == ~as_maker /\ caller = settlement.taker
                    /\ settlement.taker_escrow.is_escrowed
    IN
    IF ~as_maker /\ ~as_taker
    THEN Err(st0, "InsufficientBalance")
    ELSE
    LET asset == IF as_maker THEN settlement.maker_asset
                 ELSE settlement.taker_asset
        escrow_key == IF as_maker
                      THEN <<settlement_id, settlement.maker, settlement.maker_asset>>
                      ELSE <<settlement_id, settlement.taker, settlement.taker_asset>>
        escrowed == GetOr0(st0.escrowed_balances, escrow_key)
        balance_key == <<caller, asset>>
        st1 == IF escrowed > 0
               THEN release_escrow(st0, escrow_key, balance_key)
               ELSE st0
        s1 == IF escrowed > 0
              THEN IF caller = settlement.maker
                   THEN [settlement EXCEPT !.maker_escrow.is_escrowed = FALSE]
                   ELSE [settlement EXCEPT !.taker_escrow.is_escrowed = FALSE]
              ELSE settlement
        both_refunded == ~s1.maker_escrow.is_escrowed /\ ~s1.taker_escrow.is_escrowed
        s2 == IF both_refunded THEN [s1 EXCEPT !.status = "Refunded"] ELSE s1
    IN Ok([st1 EXCEPT
            !.settlements[settlement_id] = s2,
            !.active_settlements =
                IF both_refunded THEN @ \ {settlement_id} ELSE @])

\* "Process up to 10 expired settlements at a time"
ExpiredBatchCap == 10

RECURSIVE expire_loop(_, _, _)
expire_loop(st, t, processed) ==
    IF processed >= ExpiredBatchCap THEN st
    ELSE IF st.expiration_queue = <<>> THEN st
    ELSE
    LET expires_at == Head(st.expiration_queue)[1]
        settlement_id == Head(st.expiration_queue)[2]
    IN
    IF expires_at > t THEN st
    ELSE
    LET st1 == [st EXCEPT !.expiration_queue = Tail(@)] IN
    IF settlement_id \in DOMAIN st1.settlements
       /\ st1.settlements[settlement_id].status
              \notin {"Completed", "Refunded", "Cancelled"}
    THEN LET st2 == process_refund(st1, st1.settlements[settlement_id])
         IN expire_loop(
              [st2 EXCEPT
                !.settlements[settlement_id].status = "Expired",
                !.active_settlements = @ \ {settlement_id},
                !.stats.failed_settlements = @ + 1],
              t, processed + 1)
    ELSE expire_loop(st1, t, processed)

process_expired_settlements(st, t) == Ok(expire_loop(st, t, 0))

deposit(st, user, asset, amount) ==
    LET balance_key == <<user, asset>>
    IN Ok([st EXCEPT !.balances =
              MapInsert(@, balance_key, GetOr0(st.balances, balance_key) + amount)])

withdraw(st, user, asset, amount) ==
    LET balance_key == <<user, asset>>
        current_balance == GetOr0(st.balances, balance_key)
    IN IF current_balance < amount
       THEN Err(st, "InsufficientBalance")
       ELSE Ok([st EXCEPT !.balances =
                  MapInsert(@, balance_key, current_balance - amount)])

\* ------------------------------------------------------------------ bridge
\* Bounds of the bridge model
MaxTransfers == 2
MaxBridgeTime == 2
MaxTotalWeight == 2
MaxBridgeBalance == 3
MaxFailedTransfers == 2

\* ExternalChain::Ethereum.chain_id()
Ethereum == 1
\* "24 hour expiry": the bridge's clock counts units of 24 hours
TransferLifetime == 1
\* state.approval_threshold_percentage.set(67)
DefaultThresholdPercentage == 67

BridgeUsers == {"alice"}
BridgeCallers == {"alice", "bob"}
Validators == {"v1", "v2"}
BridgeAssets == {"USDT"}
TxHashes == {"h1", "h2"}
TransferAmounts == {2, 4}
TransferIds == 1..MaxTransfers

\* The chain configurations ConfigureChain is given.
ChainConfigs ==
    [chain : {Ethereum}, is_enabled : {TRUE},
     supported_assets : {BridgeAssets},
     min_transfer_amount : {1}, max_transfer_amount : {4},
     base_fee : {1}, fee_percentage_bps : {2500},
     required_confirmations : {2}]

VARIABLES
    next_transfer_id,
    transfers,
    user_transfers,
    active_transfers,
    transfer_expiration_queue,   \* BridgeState::expiration_queue
    processed_deposits,
    chain_configs,
    validators,
    total_validator_weight,
    approval_threshold_percentage,
    bridge_balances,             \* BridgeState::balances
    bridge_stats,                \* BridgeState::stats
    collected_fees,
    is_paused,
    ever_completed,   \* history: the transfers that have been Completed
    credited          \* history: per transfer, the amount credited to its user

bvars == <<next_transfer_id, transfers, user_transfers, active_transfers,
           transfer_expiration_queue, processed_deposits, chain_configs,
           validators, total_validator_weight, approval_threshold_percentage,
           bridge_balances, bridge_stats, collected_fees, is_paused,
           ever_completed, credited>>

\* The bridge contract's views, as one value.
BState ==
    [next_transfer_id |-> next_transfer_id,
     transfers |-> transfers,
     user_transfers |-> user_transfers,
     active_transfers |-> active_transfers,
     expiration_queue |-> transfer_expiration_queue,
     processed_deposits |-> processed_deposits,
     chain_configs |-> chain_configs,
     validators |-> validators,
     total_validator_weight |-> total_validator_weight,
     approval_threshold_percentage |-> approval_threshold_percentage,
     balances |-> bridge_balances,
     stats |-> bridge_stats,
     collected_fees |-> collected_fees,
     is_paused |-> is_paused]

BridgeStatsDefault ==
    [total_inbound_transfers |-> 0, total_outbound_transfers |-> 0,
     total_inbound_volume |-> 0, total_outbound_volume |-> 0,
     total_fees_collected |-> 0, pending_transfers |-> 0,
     failed_transfers |-> 0]

\* u64::saturating_sub / Amount::saturating_sub
SaturatingSub(a, b) == IF b > a THEN 0 ELSE a - b

\* mutant: the percentage is taken of the amount less the base fee
TransferFeeOnRest(cfg, amount) ==
    cfg.base_fee
      + ((SaturatingSub(amount, cfg.base_fee) * cfg.fee_percentage_bps) \div 10000)

\* fee = base_fee + amount * fee_percentage_bps / 10000
TransferFee(cfg, amount) ==
    cfg.base_fee + ((amount * cfg.fee_percentage_bps) \div 10000)

calculate_approval_threshold(st) ==
    (st.total_validator_weight * st.approval_threshold_percentage) \div 100

\* user_transfers.get(&user).unwrap_or_default() with transfer_id pushed
PushUserTransfer(map, user, transfer_id) ==
    MapInsert(map, user,
        Append(IF user \in DOMAIN map THEN map[user] ELSE <<>>, transfer_id))

\* mutant: the balance is not compared with the amount
HasFundsAlways(current_balance, amount) == TRUE

\* the negation of current_balance < amount
HasFunds(current_balance, amount) == current_balance >= amount

initiate_withdrawal(st, t, user, chain, destination_address, asset, amount) ==
    IF chain \notin DOMAIN st.chain_configs
    THEN Err(st, "ChainNotConfigured")
    ELSE
    LET chain_config == st.chain_configs[chain] IN
    IF ~chain_config.is_enabled THEN Err(st, "ChainDisabled")
    ELSE IF asset \notin chain_config.supported_assets
    THEN Err(st, "AssetNotSupported")
    ELSE IF amount < chain_config.min_transfer_amount
    THEN Err(st, "BelowMinimum")
    ELSE IF amount > chain_config.max_transfer_amount
    THEN Err(st, "AboveMaximum")
    ELSE IF destination_address = "" THEN Err(st, "InvalidAddress")
    ELSE
    LET fee == TransferFee(chain_config, amount)
        net_amount == SaturatingSub(amount, fee)
        balance_key == <<user, asset>>
        current_balance == GetOr0(st.balances, balance_key)
    IN
    IF ~HasFunds(current_balance, amount) THEN Err(st, "InsufficientBalance")
    ELSE
    LET transfer_id == st.next_transfer_id
        transfer ==
            [id |-> transfer_id, direction |-> "Outbound", user |-> user,
             asset |-> asset, amount |-> amount, fee |-> fee,
             net_amount |-> net_amount, source_tx_hash |-> "None",
             destination_tx_hash |-> "None", status |-> "AwaitingApproval",
             confirmations |-> 0, required_confirmations |-> 0,
             completed_at |-> None, expires_at |-> t + TransferLifetime,
             approvals |-> <<>>,
             approval_threshold |-> calculate_approval_threshold(st),
             error_message |-> "None"]
    IN Ok([st EXCEPT
            !.balances = MapInsert(@, balance_key, current_balance - amount),
            !.transfers = MapInsert(@, transfer_id, transfer),
            !.active_transfers = @ \cup {transfer_id},
            !.expiration_queue = Append(@, <<transfer.expires_at, transfer_id>>),
            !.next_transfer_id = transfer_id + 1,
            !.user_transfers = PushUserTransfer(@, user, transfer_id),
            !.collected_fees =
                MapInsert(@, asset, GetOr0(st.collected_fees, asset) + fee),
            !.stats.total_outbound_transfers = @ + 1,
            !.stats.total_outbound_volume = @ + net_amount,
            !.stats.total_fees_collected = @ + fee,
            !.stats.pending_transfers = @ + 1])

\* dep: the operation's fields (source_chain, tx_hash, recipient, asset,
\* amount, confirmations)
\* mutant: one confirmation more than required is asked for
IsConfirmedLate(confirmations, required) == confirmations > required

\* confirmations >= required_confirmations
IsConfirmed(confirmations, required) == confirmations >= required

\* mutant: no deposit is taken for a duplicate
IsDuplicateDepositNever(st, tx_hash) == FALSE

\* "Check for duplicate": processed_deposits.get(&tx_hash).is_some()
IsDuplicateDeposit(st, tx_hash) == tx_hash \in DOMAIN st.processed_deposits

report_deposit(st, t, dep) ==
    IF IsDuplicateDeposit(st, dep.tx_hash)
    THEN Err(st, "DuplicateDeposit")
    ELSE IF dep.source_chain \notin DOMAIN st.chain_configs
    THEN Err(st, "ChainNotConfigured")
    ELSE
    LET chain_config == st.chain_configs[dep.source_chain] IN
    IF ~chain_config.is_enabled THEN Err(st, "ChainDisabled")
    ELSE IF dep.asset \notin chain_config.supported_assets
    THEN Err(st, "AssetNotSupported")
    ELSE
    LET fee == TransferFee(chain_config, dep.amount)
        net_amount == SaturatingSub(dep.amount, fee)
        required_confirmations == chain_config.required_confirmations
        status == IF IsConfirmed(dep.confirmations, required_confirmations)
                  THEN "Approved" ELSE "Confirming"
        transfer_id == st.next_transfer_id
        transfer ==
            [id |-> transfer_id, direction |-> "Inbound",
             user |-> dep.recipient, asset |-> dep.asset,
             amount |-> dep.amount, fee |-> fee, net_amount |-> net_amount,
             source_tx_hash |-> dep.tx_hash, destination_tx_hash |-> "None",
             status |-> status, confirmations |-> dep.confirmations,
             required_confirmations |-> required_confirmations,
             completed_at |-> None, expires_at |-> t + TransferLifetime,
             approvals |-> <<>>,
             approval_threshold |-> calculate_approval_threshold(st),
             error_message |-> "None"]
        st1 == [st EXCEPT
                 !.transfers = MapInsert(@, transfer_id, transfer),
                 !.processed_deposits = MapInsert(@, dep.tx_hash, transfer_id),
                 !.next_transfer_id = transfer_id + 1,
                 !.user_transfers = PushUserTransfer(@, dep.recipient, transfer_id)]
        balance_key == <<dep.recipient, dep.asset>>
    IN IF status = "Approved"
       THEN Ok([st1 EXCEPT
                 !.balances = MapInsert(@, balance_key,
                     GetOr0(st1.balances, balance_key) + net_amount),
                 !.collected_fees = MapInsert(@, dep.asset,
                     GetOr0(st1.collected_fees, dep.asset) + fee),
                 !.transfers[transfer_id].status = "Completed",
                 !.transfers[transfer_id].completed_at = t,
                 !.stats.total_inbound_transfers = @ + 1,
                 !.stats.total_inbound_volume = @ + net_amount,
                 !.stats.total_fees_collected = @ + fee])
       ELSE Ok([st1 EXCEPT
                 !.active_transfers = @ \cup {transfer_id},
                 !.expiration_queue =
                     Append(@, <<transfer.expires_at, transfer_id>>),
                 !.stats.pending_transfers = @ + 1])

update_confirmations(st, t, transfer_id, confirmations) ==
    IF transfer_id \notin DOMAIN st.transfers
    THEN Err(st, "TransferNotFound")
    ELSE
    LET transfer == st.transfers[transfer_id] IN
    IF transfer.status # "Confirming" THEN Err(st, "InvalidStatus")
    ELSE IF ~IsConfirmed(confirmations, transfer.required_confirmations)
    THEN Ok([st EXCEPT !.transfers[transfer_id].confirmations = confirmations])
    ELSE IF transfer.direction # "Inbound"
    THEN Ok([st EXCEPT
              !.transfers[transfer_id].confirmations = confirmations,
              !.transfers[transfer_id].status = "Approved"])
    ELSE
    LET balance_key == <<transfer.user, transfer.asset>>
    IN Ok([st EXCEPT
            !.balances = MapInsert(@, balance_key,
                GetOr0(st.balances, balance_key) + transfer.net_amount),
            !.collected_fees = MapInsert(@, transfer.asset,
                GetOr0(st.collected_fees, transfer.asset) + transfer.fee),
            !.transfers[transfer_id].confirmations = confirmations,
            !.transfers[transfer_id].status = "Completed",
            !.transfers[transfer_id].completed_at = t,
            !.active_transfers = @ \ {transfer_id},
            !.stats.total_inbound_transfers = @ + 1,
            !.stats.total_inbound_volume = @ + transfer.net_amount,
            !.stats.total_fees_collected = @ + transfer.fee,
            !.stats.pending_transfers = SaturatingSub(@, 1)])

RECURSIVE ApprovalWeight(_, _)
\* the weights of the approvals' validators that are still registered
ApprovalWeight(st, approvals) ==
    IF approvals = <<>> THEN 0
    ELSE (IF Head(approvals) \in DOMAIN st.validators
          THEN st.validators[Head(approvals)].weight ELSE 0)
         + ApprovalWeight(st, Tail(approvals))

\* mutant: a validator's second approval is taken
approve_transfer_again(st, t, validator, transfer_id) ==
    IF validator \notin DOMAIN st.validators
    THEN Err(st, "ValidatorNotFound")
    ELSE IF ~st.validators[validator].is_active
    THEN Err(st, "Unauthorized")
    ELSE IF transfer_id \notin DOMAIN st.transfers
    THEN Err(st, "TransferNotFound")
    ELSE
    LET transfer == st.transfers[transfer_id] IN
    IF transfer.status \notin {"AwaitingApproval", "Approved"}
    THEN Err(st, "InvalidStatus")
    ELSE
    LET approvals == Append(transfer.approvals, validator)
        approval_weight == ApprovalWeight(st, approvals)
        required_weight ==
            (st.total_validator_weight * st.approval_threshold_percentage)
                \div 100
    IN Ok([st EXCEPT
            !.transfers[transfer_id].approvals = approvals,
            !.transfers[transfer_id].status =
                IF approval_weight >= required_weight THEN "Approved" ELSE @])

\* mutant: the status is recomputed from the weight at every approval
approve_transfer_recompute(st, t, validator, transfer_id) ==
    IF validator \notin DOMAIN st.validators
    THEN Err(st, "ValidatorNotFound")
    ELSE IF ~st.validators[validator].is_active
    THEN Err(st, "Unauthorized")
    ELSE IF transfer_id \notin DOMAIN st.transfers
    THEN Err(st, "TransferNotFound")
    ELSE
    LET transfer == st.transfers[transfer_id] IN
    IF transfer.status \notin {"AwaitingApproval", "Approved"}
    THEN Err(st, "InvalidStatus")
    ELSE IF \E i \in DOMAIN transfer.approvals : transfer.approvals[i] = validator
    THEN Err(st, "AlreadyApproved")
    ELSE
    LET approvals == Append(transfer.approvals, validator)
        approval_weight == ApprovalWeight(st, approvals)
        required_weight ==
            (st.total_validator_weight * st.approval_threshold_percentage)
                \div 100
    IN Ok([st EXCEPT
            !.transfers[transfer_id].approvals = approvals,
            !.transfers[transfer_id].status =
                IF approval_weight >= required_weight
                THEN "Approved" ELSE "AwaitingApproval"])

approve_transfer(st, t, validator, transfer_id) ==
    IF validator \notin DOMAIN st.validators
    THEN Err(st, "ValidatorNotFound")
    ELSE IF ~st.validators[validator].is_active
    THEN Err(st, "Unauthorized")
    ELSE IF transfer_id \notin DOMAIN st.transfers
    THEN Err(st, "TransferNotFound")
    ELSE
    LET transfer == st.transfers[transfer_id] IN
    IF transfer.status \notin {"AwaitingApproval", "Approved"}
    THEN Err(st, "InvalidStatus")
    ELSE IF \E i \in DOMAIN transfer.approvals : transfer.approvals[i] = validator
    THEN Err(st, "AlreadyApproved")
    ELSE
    LET approvals == Append(transfer.approvals, validator)
        approval_weight == ApprovalWeight(st, approvals)
        required_weight ==
            (st.total_validator_weight * st.approval_threshold_percentage)
                \div 100
    IN Ok([st EXCEPT
            !.transfers[transfer_id].approvals = approvals,
            !.transfers[transfer_id].status =
                IF approval_weight >= required_weight THEN "Approved" ELSE @])

\* mutant: an expired transfer is marked Expired before the error is returned
execute_transfer_marking(st, t, transfer_id) ==
    IF transfer_id \notin DOMAIN st.transfers
    THEN Err(st, "TransferNotFound")
    ELSE
    LET transfer == st.transfers[transfer_id] IN
    IF transfer.status # "Approved" THEN Err(st, "InvalidStatus")
    ELSE IF t > transfer.expires_at
    THEN Err([st EXCEPT !.transfers[transfer_id].status = "Expired"], "Expired")
    ELSE Ok([st EXCEPT !.transfers[transfer_id].status = "Executing"])

\* mutant: the expiry of the transfer is not looked at
execute_transfer_late(st, t, transfer_id) ==
    IF transfer_id \notin DOMAIN st.transfers
    THEN Err(st, "TransferNotFound")
    ELSE
    LET transfer == st.transfers[transfer_id] IN
    IF transfer.status # "Approved" THEN Err(st, "InvalidStatus")
    ELSE Ok([st EXCEPT !.transfers[transfer_id].status = "Executing"])

execute_transfer(st, t, transfer_id) ==
    IF transfer_id \notin DOMAIN st.transfers
    THEN Err(st, "TransferNotFound")
    ELSE
    LET transfer == st.transfers[transfer_id] IN
    IF transfer.status # "Approved" THEN Err(st, "InvalidStatus")
    ELSE IF t > transfer.expires_at THEN Err(st, "Expired")
    ELSE Ok([st EXCEPT !.transfers[transfer_id].status = "Executing"])

\* complete_withdrawal's test of the transfer before it acts
CanCompleteWithdrawal(transfer) == transfer.direction = "Outbound"

complete_withdrawal(st, t, transfer_id, tx_hash, success) ==
    IF transfer_id \notin DOMAIN st.transfers
    THEN Err(st, "TransferNotFound")
    ELSE
    LET transfer == st.transfers[transfer_id] IN
    IF ~CanCompleteWithdrawal(transfer) THEN Err(st, "InvalidStatus")
    ELSE
    LET balance_key == <<transfer.user, transfer.asset>>
        st1 == IF success
               THEN [st EXCEPT
                      !.transfers[transfer_id].status = "Completed",
                      !.transfers[transfer_id].destination_tx_hash = tx_hash,
                      !.transfers[transfer_id].completed_at = t]
               ELSE [st EXCEPT
                      !.transfers[transfer_id].status = "Failed",
                      !.transfers[transfer_id].error_message =
                          "Transaction failed on destination chain",
                      !.balances = MapInsert(@, balance_key,
                          GetOr0(st.balances, balance_key) + transfer.net_amount),
                      !.stats.failed_transfers = @ + 1]
    IN Ok([st1 EXCEPT
            !.active_transfers = @ \ {transfer_id},
            !.stats.pending_transfers = SaturatingSub(@, 1)])

\* mutant: only Failed and Expired transfers are refunded
bridge_claim_refund_strict(st, t, caller, transfer_id) ==
    IF transfer_id \notin DOMAIN st.transfers
    THEN Err(st, "TransferNotFound")
    ELSE
    LET transfer == st.transfers[transfer_id] IN
    IF transfer.user # caller THEN Err(st, "Unauthorized")
    ELSE IF transfer.status \notin {"Failed", "Expired"}
    THEN Err(st, "InvalidStatus")
    ELSE
    LET balance_key == <<transfer.user, transfer.asset>>
        bal == IF transfer.direction = "Outbound"
               THEN MapInsert(st.balances, balance_key,
                        GetOr0(st.balances, balance_key) + transfer.net_amount)
               ELSE st.balances
    IN Ok([st EXCEPT
            !.balances = bal,
            !.transfers[transfer_id] =
                [transfer EXCEPT !.status = "Refunded", !.completed_at = t],
            !.active_transfers = @ \ {transfer_id}])

bridge_claim_refund(st, t, caller, transfer_id) ==
    IF transfer_id \notin DOMAIN st.transfers
    THEN Err(st, "TransferNotFound")
    ELSE
    LET loaded == st.transfers[transfer_id] IN
    IF loaded.user # caller THEN Err(st, "Unauthorized")
    ELSE
    LET refundable == loaded.status \in {"Failed", "Expired"}
        mark_expired == ~refundable /\ t > loaded.expires_at
        \* the local copy only: written to the view by the final insert
        transfer == IF mark_expired
                    THEN [loaded EXCEPT !.status = "Expired"] ELSE loaded
    IN
    IF ~(refundable \/ mark_expired) THEN Err(st, "InvalidStatus")
    ELSE IF transfer.status = "Refunded" THEN Err(st, "AlreadyProcessed")
    ELSE
    LET balance_key == <<transfer.user, transfer.asset>>
        bal == IF transfer.direction = "Outbound"
               THEN MapInsert(st.balances, balance_key,
                        GetOr0(st.balances, balance_key) + transfer.net_amount)
               ELSE st.balances
    IN Ok([st EXCEPT
            !.balances = bal,
            !.transfers[transfer_id] =
                [transfer EXCEPT !.status = "Refunded", !.completed_at = t],
            !.active_transfers = @ \ {transfer_id}])

RECURSIVE expire_transfers_loop(_, _, _)
expire_transfers_loop(st, t, processed) ==
    IF processed >= ExpiredBatchCap THEN st
    ELSE IF st.expiration_queue = <<>> THEN st
    ELSE
    LET expires_at == Head(st.expiration_queue)[1]
        transfer_id == Head(st.expiration_queue)[2]
    IN
    IF expires_at > t THEN st
    ELSE
    LET st1 == [st EXCEPT !.expiration_queue = Tail(@)] IN
    IF transfer_id \in DOMAIN st1.transfers
       /\ st1.transfers[transfer_id].status
              \in {"Pending", "Confirming", "AwaitingApproval", "Executing"}
    THEN expire_transfers_loop(
           [st1 EXCEPT
             !.transfers[transfer_id].status = "Expired",
             !.active_transfers = @ \ {transfer_id},
             !.stats.failed_transfers = @ + 1,
             !.stats.pending_transfers = SaturatingSub(@, 1)],
           t, processed + 1)
    ELSE expire_transfers_loop(st1, t, processed)

process_expired_transfers(st, t) == Ok(expire_transfers_loop(st, t, 0))

configure_chain(st, config) ==
    Ok([st EXCEPT !.chain_configs = MapInsert(@, config.chain, config)])

add_validator(st, config) ==
    Ok([st EXCEPT
         !.total_validator_weight = @ + config.weight,
         !.validators = MapInsert(@, config.address, config)])

remove_validator(st, validator) ==
    IF validator \notin DOMAIN st.validators
    THEN Err(st, "ValidatorNotFound")
    ELSE Ok([st EXCEPT
              !.total_validator_weight =
                  SaturatingSub(@, st.validators[validator].weight),
              !.validators = MapDelete(@, validator)])

disable_chain(st, chain) ==
    IF chain \notin DOMAIN st.chain_configs
    THEN Err(st, "ChainNotConfigured")
    ELSE Ok([st EXCEPT !.chain_configs[chain].is_enabled = FALSE])

\* base_fee, fee_percentage_bps: None for an absent Option
update_fees(st, chain, base_fee, fee_percentage_bps) ==
    IF chain \notin DOMAIN st.chain_configs
    THEN Err(st, "ChainNotConfigured")
    ELSE Ok([st EXCEPT
              !.chain_configs[chain].base_fee =
                  IF base_fee # None THEN base_fee ELSE @,
              !.chain_configs[chain].fee_percentage_bps =
                  IF fee_percentage_bps # None THEN fee_percentage_bps ELSE @])

\* execute_operation, Operation::EmergencyPause
emergency_pause(st) == Ok([st EXCEPT !.is_paused = TRUE])

\* execute_operation, Operation::Resume
resume(st) == Ok([st EXCEPT !.is_paused = FALSE])

\* execute_message, Message::DepositNotification: the error is logged
deposit_notification(st, t, dep) == Ok(report_deposit(st, t, dep).st)

\* execute_message, Message::ValidatorSignature: approve_transfer for the
\* authenticated signer of the message when approved; the error is logged
validator_signature(st, t, signer, transfer_id, approved) ==
    IF approved THEN Ok(approve_transfer(st, t, signer, transfer_id).st)
    ELSE Ok(st)

\* mutant: the pause flag is not looked at
paused_or_never(st, r) == r

\* execute_operation: "Check pause status (except for admin operations)"
paused_or(st, r) == IF st.is_paused THEN Err(st, "Paused") ELSE r

\* -------------------------------------------------- order book: the views
\* the market's base and quote asset (MarketConfig::default)
MarketAssets == {"BTC", "USDT"}

\* Bound of the settlement contract's bridge part
MaxSBridgeTransfers == 2

SBridgeTransferIds == 1..MaxSBridgeTransfers

VARIABLES
    next_order_id,
    orders,
    buy_levels,
    sell_levels,
    best_bid,
    best_ask,
    ob_balances,
    locked_balances,
    ob_collected_fees,
    trades,
    next_trade_id,
    last_price

ovars == <<next_order_id, orders, buy_levels, sell_levels, best_bid, best_ask,
           ob_balances, locked_balances, ob_collected_fees, trades,
           next_trade_id, last_price>>

\* ------------------------------------------------- order book: one Order
\* an Order value and what its methods answered (<<>>: not yet called)
VARIABLES
    an_order,
    its_remaining_quantity,
    its_is_fully_filled

tvars == <<an_order, its_remaining_quantity, its_is_fully_filled>>

\* ------------------------------- settlement: the views of its bridge part
VARIABLES
    s_next_transfer_id,
    bridge_transfers,
    s_user_transfers,
    pending_deposits,
    pending_withdrawals,
    bridge_configs,
    bridge_totals,
    recredited

xvars == <<s_next_transfer_id, bridge_transfers, s_user_transfers,
           pending_deposits, pending_withdrawals, bridge_configs,
           bridge_totals, recredited>>

\* ------------------------------------------------------ settlement: actions
Requests ==
    [trade_id : TradeIds, maker : {"alice"}, taker : Traders,
     maker_asset : {"X"}, taker_asset : {"Y"},
     maker_amount : Amounts, taker_amount : Amounts,
     timeout_seconds : Timeouts]

SettlementIds == 1..MaxSettlements

\* the settlement contract's views, without the clock
sviews == <<next_settlement_id, settlements, user_settlements,
            active_settlements, expiration_queue, balances, escrowed_balances,
            stats, net_deposited>>

SInit ==
    /\ now = 0
    /\ next_settlement_id = 1
    /\ settlements = EmptyMap
    /\ user_settlements = EmptyMap
    /\ active_settlements = {}
    /\ expiration_queue = <<>>
    /\ balances = [k \in Accounts \X Assets |-> 0]
    /\ escrowed_balances = [k \in SettlementIds \X Accounts \X Assets |-> 0]
    /\ stats = SettlementStatsDefault
    /\ net_deposited = [a \in Assets |-> 0]

\* The views after a handler returned r.
SCommit(r) ==
    /\ next_settlement_id' = r.st.next_settlement_id
    /\ settlements' = r.st.settlements
    /\ user_settlements' = r.st.user_settlements
    /\ active_settlements' = r.st.active_settlements
    /\ expiration_queue' = r.st.expiration_queue
    /\ balances' = r.st.balances
    /\ escrowed_balances' = r.st.escrowed_balances
    /\ stats' = r.st.stats
    /\ UNCHANGED <<bvars, ovars, xvars, tvars>>

Tick ==
    /\ now < MaxTime
    /\ now' = now + 1
    /\ UNCHANGED <<sviews, bvars, ovars, xvars, tvars>>

InitiateSettlement(req) ==
    /\ next_settlement_id <= MaxSettlements
    /\ SCommit(initiate_settlement(SState, now, req))
    /\ UNCHANGED <<now, net_deposited>>

ConfirmEscrow(caller, sid) ==
    /\ SCommit(confirm_escrow(SState, now, caller, sid))
    /\ UNCHANGED <<now, net_deposited>>

ExecuteSettlement(sid) ==
    /\ SCommit(execute_settlement(SState, now, sid))
    /\ UNCHANGED <<now, net_deposited>>

CancelSettlement(caller, sid) ==
    /\ SCommit(cancel_settlement(SState, caller, sid))
    /\ UNCHANGED <<now, net_deposited>>

ClaimRefund(caller, sid) ==
    /\ SCommit(claim_refund(SState, now, caller, sid))
    /\ UNCHANGED <<now, net_deposited>>

ProcessExpiredSettlements ==
    /\ SCommit(process_expired_settlements(SState, now))
    /\ UNCHANGED <<now, net_deposited>>

Deposit(user, asset, amount) ==
    /\ net_deposited[asset] + amount <= MaxSupply
    /\ SCommit(deposit(SState, user, asset, amount))
    /\ net_deposited' = [net_deposited EXCEPT ![asset] = @ + amount]
    /\ UNCHANGED now

Withdraw(user, asset, amount) ==
    LET r == withdraw(SState, user, asset, amount)
    IN /\ SCommit(r)
       /\ net_deposited' = IF r.res = "Ok"
                           THEN [net_deposited EXCEPT ![asset] = @ - amount]
                           ELSE net_deposited
       /\ UNCHANGED now

SNext ==
    \/ Tick
    \/ \E req \in Requests : InitiateSettlement(req)
    \/ \E c \in Accounts, sid \in SettlementIds : ConfirmEscrow(c, sid)
    \/ \E sid \in SettlementIds : ExecuteSettlement(sid)
    \/ \E c \in Accounts, sid \in SettlementIds : CancelSettlement(c, sid)
    \/ \E c \in Accounts, sid \in SettlementIds : ClaimRefund(c, sid)
    \/ ProcessExpiredSettlements
    \/ \E u \in Traders, a \in Assets, m \in Amounts : Deposit(u, a, m)
    \/ \E u \in Traders, a \in Assets, m \in Amounts : Withdraw(u, a, m)

vars == <<svars, bvars, ovars, xvars, tvars>>

\* ---------------------------------------------------------- bridge: actions
Deposits ==
    [source_chain : {Ethereum}, tx_hash : TxHashes, recipient : BridgeUsers,
     asset : BridgeAssets, amount : TransferAmounts, confirmations : {0, 2}]

ValidatorConfigs == [address : Validators, weight : {1}, is_active : {TRUE}]

\* instantiate
BInit ==
    /\ next_transfer_id = 1
    /\ transfers = EmptyMap
    /\ user_transfers = EmptyMap
    /\ active_transfers = {}
    /\ transfer_expiration_queue = <<>>
    /\ processed_deposits = EmptyMap
    /\ chain_configs = EmptyMap
    /\ validators = EmptyMap
    /\ total_validator_weight = 0
    /\ approval_threshold_percentage = DefaultThresholdPercentage
    /\ bridge_balances = [k \in BridgeUsers \X BridgeAssets |-> 0]
    /\ bridge_stats = BridgeStatsDefault
    /\ collected_fees = [a \in BridgeAssets |-> 0]
    /\ is_paused = FALSE
    /\ ever_completed = {}
    /\ credited = [i \in TransferIds |-> 0]

\* the order book after instantiate: every view at its default
OInit ==
    /\ next_order_id = 1
    /\ orders = EmptyMap
    /\ buy_levels = EmptyMap
    /\ sell_levels = EmptyMap
    /\ best_bid = None
    /\ best_ask = None
    /\ ob_balances = [k \in Traders \X MarketAssets |-> 0]
    /\ locked_balances = [k \in Traders \X MarketAssets |-> 0]
    /\ ob_collected_fees = [a \in MarketAssets |-> 0]
    /\ trades = <<>>
    /\ next_trade_id = 1
    /\ last_price = 0

\* the bridge part of the settlement contract after instantiate
XInit ==
    /\ s_next_transfer_id = 1
    /\ bridge_transfers = EmptyMap
    /\ s_user_transfers = EmptyMap
    /\ pending_deposits = EmptyMap
    /\ pending_withdrawals = <<>>
    /\ bridge_configs = EmptyMap
    /\ bridge_totals = [total_bridge_deposits |-> 0, total_bridge_withdrawals |-> 0]
    /\ recredited = [i \in SBridgeTransferIds |-> 0]

\* Order::remaining_quantity
remaining_quantity_wrapping(self) == self.quantity - self.filled_quantity

remaining_quantity(self) == SaturatingSub(self.quantity, self.filled_quantity)

\* Order::is_fully_filled
is_fully_filled(self) == self.filled_quantity >= self.quantity

\* the Order of test_order_remaining_quantity, scaled down
TestOrder ==
    [id |-> 1, user |-> "alice", side |-> "Buy", order_type |-> "Limit",
     price |-> 1, quantity |-> 2, filled_quantity |-> 1,
     status |-> "PartiallyFilled", time_in_force |-> "GTC", expires_at |-> None]

TInit ==
    /\ an_order = TestOrder
    /\ its_remaining_quantity = <<>>
    /\ its_is_fully_filled = <<>>

Init == SInit /\ BInit /\ OInit /\ XInit /\ TInit

\* what the operation on transfer_id added to the free balance of its user
CreditOf(r, transfer_id) ==
    IF transfer_id \in DOMAIN r.st.transfers
    THEN LET tr == r.st.transfers[transfer_id]
             key == <<tr.user, tr.asset>>
         IN IF r.st.balances[key] > bridge_balances[key]
            THEN r.st.balances[key] - bridge_balances[key] ELSE 0
    ELSE 0

\* The views after execute_operation returned r for an operation on
\* transfer_id (0 when the operation names no transfer).
BCommit(r, transfer_id) ==
    /\ \A k \in DOMAIN r.st.balances : r.st.balances[k] <= MaxBridgeBalance
    /\ r.st.stats.failed_transfers <= MaxFailedTransfers
    /\ next_transfer_id' = r.st.next_transfer_id
    /\ transfers' = r.st.transfers
    /\ user_transfers' = r.st.user_transfers
    /\ active_transfers' = r.st.active_transfers
    /\ transfer_expiration_queue' = r.st.expiration_queue
    /\ processed_deposits' = r.st.processed_deposits
    /\ chain_configs' = r.st.chain_configs
    /\ validators' = r.st.validators
    /\ total_validator_weight' = r.st.total_validator_weight
    /\ approval_threshold_percentage' = r.st.approval_threshold_percentage
    /\ bridge_balances' = r.st.balances
    /\ bridge_stats' = r.st.stats
    /\ collected_fees' = r.st.collected_fees
    /\ is_paused' = r.st.is_paused
    /\ ever_completed' = ever_completed \cup
           {i \in DOMAIN r.st.transfers : r.st.transfers[i].status = "Completed"}
    /\ credited' = IF transfer_id \in TransferIds
                   THEN [credited EXCEPT ![transfer_id] = @ + CreditOf(r, transfer_id)]
                   ELSE credited

BridgeTick ==
    /\ now < MaxBridgeTime
    /\ now' = now + 1
    /\ UNCHANGED <<sviews, bvars, ovars, xvars, tvars>>

ConfigureChain(config) ==
    /\ Ethereum \notin DOMAIN chain_configs
    /\ BCommit(paused_or(BState, configure_chain(BState, config)), 0)
    /\ UNCHANGED <<now, sviews, ovars, xvars, tvars>>

AddValidator(config) ==
    /\ total_validator_weight + config.weight <= MaxTotalWeight
    /\ BCommit(paused_or(BState, add_validator(BState, config)), 0)
    /\ UNCHANGED <<now, sviews, ovars, xvars, tvars>>

InitiateWithdrawal(user, asset, amount) ==
    /\ next_transfer_id <= MaxTransfers
    /\ BCommit(paused_or(BState,
           initiate_withdrawal(BState, now, user, Ethereum, "0xdest", asset,
                               amount)), 0)
    /\ UNCHANGED <<now, sviews, ovars, xvars, tvars>>

ReportDeposit(dep) ==
    /\ next_transfer_id <= MaxTransfers
    /\ BCommit(paused_or(BState, report_deposit(BState, now, dep)),
               next_transfer_id)
    /\ UNCHANGED <<now, sviews, ovars, xvars, tvars>>

DepositNotification(dep) ==
    /\ next_transfer_id <= MaxTransfers
    /\ BCommit(deposit_notification(BState, now, dep), next_transfer_id)
    /\ UNCHANGED <<now, sviews, ovars, xvars, tvars>>

UpdateConfirmations(transfer_id, confirmations) ==
    /\ BCommit(paused_or(BState,
           update_confirmations(BState, now, transfer_id, confirmations)),
           transfer_id)
    /\ UNCHANGED <<now, sviews, ovars, xvars, tvars>>

ApproveTransfer(validator, transfer_id) ==
    /\ BCommit(paused_or(BState,
           approve_transfer(BState, now, validator, transfer_id)), 0)
    /\ UNCHANGED <<now, sviews, ovars, xvars, tvars>>

ExecuteTransfer(transfer_id) ==
    /\ BCommit(paused_or(BState, execute_transfer(BState, now, transfer_id)), 0)
    /\ UNCHANGED <<now, sviews, ovars, xvars, tvars>>

CompleteWithdrawal(transfer_id, success) ==
    /\ BCommit(paused_or(BState,
           complete_withdrawal(BState, now, transfer_id, "0xtx", success)),
           transfer_id)
    /\ UNCHANGED <<now, sviews, ovars, xvars, tvars>>

BridgeClaimRefund(caller, transfer_id) ==
    /\ BCommit(paused_or(BState,
           bridge_claim_refund(BState, now, caller, transfer_id)), transfer_id)
    /\ UNCHANGED <<now, sviews, ovars, xvars, tvars>>

ProcessExpiredTransfers ==
    /\ BCommit(paused_or(BState, process_expired_transfers(BState, now)), 0)
    /\ UNCHANGED <<now, sviews, ovars, xvars, tvars>>

BNext ==
    \/ BridgeTick
    \/ \E c \in ChainConfigs : ConfigureChain(c)
    \/ \E v \in ValidatorConfigs : AddValidator(v)
    \/ \E u \in BridgeUsers, a \in BridgeAssets, m \in TransferAmounts :
           InitiateWithdrawal(u, a, m)
    \/ \E d \in Deposits : ReportDeposit(d)
    \/ \E d \in Deposits : DepositNotification(d)
    \/ \E i \in TransferIds, n \in {1, 2} : UpdateConfirmations(i, n)
    \/ \E v \in Validators, i \in TransferIds : ApproveTransfer(v, i)
    \/ \E i \in TransferIds : ExecuteTransfer(i)
    \/ \E i \in TransferIds, ok \in BOOLEAN : CompleteWithdrawal(i, ok)
    \/ \E c \in BridgeCallers, i \in TransferIds : BridgeClaimRefund(c, i)
    \/ ProcessExpiredTransfers

\* the settlement contract alone
Spec == Init /\ [][SNext]_vars

\* the bridge contract alone
SpecBridge == Init /\ [][BNext]_vars

\* ------------------------------------------------ bridge: the validator set
\* Bound of the validator model
MaxValidatorWeight == 5

\* validators of either weight, active or not
AnyValidatorConfigs == [address : Validators, weight : {1, 2}, is_active : BOOLEAN]

\* the one deposit that funds the withdrawals of the validator model
FundingDeposits == {d \in Deposits : d.tx_hash = "h1" /\ d.amount = 4 /\ d.confirmations = 2}

AddAnyValidator(config) ==
    /\ total_validator_weight + config.weight <= MaxValidatorWeight
    /\ BCommit(paused_or(BState, add_validator(BState, config)), 0)
    /\ UNCHANGED <<now, sviews, ovars, xvars, tvars>>

RemoveValidator(validator) ==
    /\ BCommit(paused_or(BState, remove_validator(BState, validator)), 0)
    /\ UNCHANGED <<now, sviews, ovars, xvars, tvars>>

VNext ==
    \/ BridgeTick
    \/ \E c \in ChainConfigs : ConfigureChain(c)
    \/ \E d \in FundingDeposits : ReportDeposit(d)
    \/ \E u \in BridgeUsers, a \in BridgeAssets : InitiateWithdrawal(u, a, 2)
    \/ \E v \in AnyValidatorConfigs : AddAnyValidator(v)
    \/ \E v \in Validators : RemoveValidator(v)
    \/ \E v \in Validators, i \in TransferIds : ApproveTransfer(v, i)
    \/ \E i \in TransferIds : ExecuteTransfer(i)

\* the bridge with a changing validator set
SpecValidators == Init /\ [][VNext]_vars

\* ------------------------------------------- bridge: fees, pause, chains
\* the base_fee and fee_percentage_bps arguments of UpdateFees
BaseFees == {None, 0, 5}

FeeBps == {None, 10000}

DisableChain(chain) ==
    /\ BCommit(paused_or(BState, disable_chain(BState, chain)), 0)
    /\ UNCHANGED <<now, sviews, ovars, xvars, tvars>>

UpdateFees(chain, base_fee, fee_percentage_bps) ==
    /\ BCommit(paused_or(BState, update_fees(BState, chain, base_fee, fee_percentage_bps)), 0)
    /\ UNCHANGED <<now, sviews, ovars, xvars, tvars>>

EmergencyPause ==
    /\ BCommit(emergency_pause(BState), 0)
    /\ UNCHANGED <<now, sviews, ovars, xvars, tvars>>

Resume ==
    /\ BCommit(resume(BState), 0)
    /\ UNCHANGED <<now, sviews, ovars, xvars, tvars>>

ANext ==
    \/ \E c \in ChainConfigs : ConfigureChain(c)
    \/ DisableChain(Ethereum)
    \/ \E b \in BaseFees, p \in FeeBps : UpdateFees(Ethereum, b, p)
    \/ EmergencyPause
    \/ Resume
    \/ \E d \in Deposits : ReportDeposit(d)
    \/ \E i \in TransferIds, n \in {1, 2} : UpdateConfirmations(i, n)
    \/ \E u \in BridgeUsers, a \in BridgeAssets, m \in TransferAmounts :
           InitiateWithdrawal(u, a, m)

\* the bridge with its administrative operations
SpecAdmin == Init /\ [][ANext]_vars

\* ------------------------------------------- bridge: incoming messages
\* the authenticated signer of a message: a validator or another account
MessageSigners == Validators \cup {"bob"}

ValidatorSignature(signer, transfer_id, approved) ==
    /\ BCommit(validator_signature(BState, now, signer, transfer_id, approved), transfer_id)
    /\ UNCHANGED <<now, sviews, ovars, xvars, tvars>>

MNext ==
    \/ \E c \in ChainConfigs : ConfigureChain(c)
    \/ \E v \in ValidatorConfigs : AddValidator(v)
    \/ EmergencyPause
    \/ Resume
    \/ \E d \in Deposits : ReportDeposit(d)
    \/ \E d \in Deposits : DepositNotification(d)
    \/ \E u \in BridgeUsers, a \in BridgeAssets, m \in TransferAmounts :
           InitiateWithdrawal(u, a, m)
    \/ \E v \in MessageSigners, i \in TransferIds, ok \in BOOLEAN :
           ValidatorSignature(v, i, ok)

\* the bridge with its operations and its incoming messages, pausable
SpecMessages == Init /\ [][MNext]_vars

\* ------------------------------------------- settlement: a long queue
\* Bounds of the long-queue model
MaxQueued == 11
MaxCancelled == 2

\* execute_message, Message::SettlementRequest: the error is logged
settlement_request(st, t, req) == Ok(initiate_settlement(st, t, req).st)

QueuedRequests ==
    [trade_id : TradeIds, maker : {"alice"}, taker : {"bob"},
     maker_asset : {"X"}, taker_asset : {"Y"},
     maker_amount : {1}, taker_amount : {1}, timeout_seconds : {1}]

SettlementRequest(req) ==
    /\ next_settlement_id <= MaxQueued
    /\ SCommit(settlement_request(SState, now, req))
    /\ UNCHANGED <<now, net_deposited>>

CancelQueued(caller, sid) ==
    /\ sid <= MaxCancelled
    /\ CancelSettlement(caller, sid)

QNext ==
    \/ Tick
    \/ \E req \in QueuedRequests : SettlementRequest(req)
    \/ \E sid \in 1..MaxQueued : CancelQueued("alice", sid)
    \/ ProcessExpiredSettlements

\* the settlement contract with more settlements queued than one
\* ProcessExpiredSettlements call handles
SpecQueue == Init /\ [][QNext]_vars

\* ------------------------------------------------------ settlement: claims
RECURSIVE SumOf(_, _)
SumOf(f, S) ==
    IF S = {} THEN 0
    ELSE LET k == CHOOSE x \in S : TRUE IN f[k] + SumOf(f, S \ {k})

FreeOf(a) == SumOf(balances, {k \in DOMAIN balances : k[2] = a})
EscrowedOf(a) ==
    SumOf(escrowed_balances, {k \in DOMAIN escrowed_balances : k[3] = a})

MakerKey(s) == <<s.id, s.maker, s.maker_asset>>
TakerKey(s) == <<s.id, s.taker, s.taker_asset>>
BothEscrowed(s) == s.maker_escrow.is_escrowed /\ s.taker_escrow.is_escrowed

\* C1: for every asset, the free balances plus the escrow entries equal the
\* amount deposited minus the amount withdrawn, after any sequence of Deposit,
\* Withdraw, InitiateSettlement, ConfirmEscrow, ExecuteSettlement,
\* CancelSettlement, ClaimRefund and ProcessExpiredSettlements.
C1_Conservation ==
    \A a \in Assets : FreeOf(a) + EscrowedOf(a) = net_deposited[a]

\* a swap has completed while another settlement holds funds in escrow
C1_Witness ==
    /\ \E sid \in DOMAIN settlements : settlements[sid].status = "Completed"
    /\ \E k \in DOMAIN escrowed_balances : escrowed_balances[k] > 0

\* C2: in the step that makes a settlement Completed, the taker's free
\* maker_asset balance rises by exactly maker_amount and the maker's free
\* taker_asset balance by exactly taker_amount (both escrows were satisfied).
C2_CompletedMovesBothAmounts ==
    [][\A sid \in DOMAIN settlements :
         LET s == settlements[sid] IN
         (/\ s.status # "Completed"
          /\ settlements'[sid].status = "Completed"
          /\ s.maker # s.taker /\ s.maker_asset # s.taker_asset)
         => /\ balances'[<<s.taker, s.maker_asset>>]
                 = balances[<<s.taker, s.maker_asset>>] + s.maker_amount
            /\ balances'[<<s.maker, s.taker_asset>>]
                 = balances[<<s.maker, s.taker_asset>>] + s.taker_amount]_svars

\* C5: a settlement that is Completed, Refunded, Cancelled or Expired has no
\* funds left in escrow.
C5_FinalizedHoldsNoEscrow ==
    \A sid \in DOMAIN settlements :
        LET s == settlements[sid] IN
        s.status \in {"Completed", "Refunded", "Cancelled", "Expired"}
        => /\ escrowed_balances[MakerKey(s)] = 0
           /\ escrowed_balances[TakerKey(s)] = 0

\* C6: Completed, Cancelled and Refunded are terminal, and Cancelled, Expired
\* and Refunded are entered only from a state before Executing.
C6_TerminalStatuses ==
    [][\A sid \in DOMAIN settlements :
         LET old == settlements[sid].status
             new == settlements'[sid].status
         IN /\ old \in {"Completed", "Cancelled", "Refunded"} => new = old
            /\ (new # old /\ new \in {"Cancelled", "Expired", "Refunded"})
               => old \in {"Pending", "MakerEscrowed", "TakerEscrowed",
                           "FullyEscrowed"}]_svars

\* C8: the ConfirmEscrow that makes both parties escrowed leaves the
\* settlement Completed, with completed_at set and both escrow entries clear;
\* no settlement is FullyEscrowed or Executing between operations.
C8_AutoExecutes ==
    /\ [](\A sid \in DOMAIN settlements :
            settlements[sid].status \notin {"FullyEscrowed", "Executing"})
    /\ [][\A sid \in DOMAIN settlements :
            (~BothEscrowed(settlements[sid]) /\ BothEscrowed(settlements'[sid]))
            => /\ settlements'[sid].status = "Completed"
               /\ settlements'[sid].completed_at = now
               /\ escrowed_balances'[MakerKey(settlements[sid])] = 0
               /\ escrowed_balances'[TakerKey(settlements[sid])] = 0]_svars

\* a settlement both parties escrowed, completed
C8_Witness ==
    \E sid \in DOMAIN settlements :
        /\ BothEscrowed(settlements[sid])
        /\ settlements[sid].status = "Completed"
        /\ settlements[sid].completed_at # None

\* what C9 says of the calls made on settlement sid after its expiry, where
\* exec_error is the error ExecuteSettlement returns
C9_Body(exec_error) ==
    \A sid \in DOMAIN settlements :
        LET s == settlements[sid] IN
        /\ s.status = "Completed" => s.completed_at <= s.expires_at
        /\ now > s.expires_at =>
             /\ \A c \in Accounts :
                  LET r == confirm_escrow(SState, now, c, sid) IN
                  /\ r.res = "SettlementExpired"
                  /\ r.st.balances = balances
                  /\ r.st.escrowed_balances = escrowed_balances
             /\ LET r == execute_settlement(SState, now, sid) IN
                /\ r.res = exec_error
                /\ r.st.balances = balances
                /\ r.st.escrowed_balances = escrowed_balances

CancelRefund(s, u, a) ==
    (IF s.maker_escrow.is_escrowed /\ u = s.maker /\ a = s.maker_asset
     THEN s.maker_escrow.amount ELSE 0)
    + (IF s.taker_escrow.is_escrowed /\ u = s.taker /\ a = s.taker_asset
       THEN s.taker_escrow.amount ELSE 0)

\* C10: CancelSettlement by a party succeeds exactly from Pending,
\* MakerEscrowed and TakerEscrowed; it then returns each party its escrowed
\* amount, clears both entries and sets Cancelled; from any other status it
\* fails with CannotCancel and changes nothing.
C10_CancelSettlement ==
    \A sid \in DOMAIN settlements :
        LET s == settlements[sid] IN
        \A c \in {s.maker, s.taker} :
            LET r == cancel_settlement(SState, c, sid) IN
            IF s.status \in {"Pending", "MakerEscrowed", "TakerEscrowed"}
            THEN /\ r.res = "Ok"
                 /\ r.st.settlements[sid].status = "Cancelled"
                 /\ \A u \in Accounts, a \in Assets :
                       r.st.balances[<<u, a>>]
                           = balances[<<u, a>>] + CancelRefund(s, u, a)
                 /\ r.st.escrowed_balances[MakerKey(s)] = 0
                 /\ r.st.escrowed_balances[TakerKey(s)] = 0
            ELSE /\ r.res = "CannotCancel"
                 /\ r.st = SState

\* a settlement cancelled after its maker had escrowed, the escrow returned
C10_Witness ==
    \E sid \in DOMAIN settlements :
        LET s == settlements[sid] IN
        /\ s.status = "Cancelled"
        /\ s.maker_escrow.is_escrowed
        /\ escrowed_balances[MakerKey(s)] = 0
        /\ balances[<<s.maker, s.maker_asset>>] >= s.maker_escrow.amount

\* the escrow party u holds under settlement s: it has escrowed (the flag)
\* and the funds are still in the escrow entry
HoldsEscrow(s, u) ==
    \/ /\ u = s.maker /\ s.maker_escrow.is_escrowed
       /\ escrowed_balances[MakerKey(s)] > 0
    \/ /\ u = s.taker /\ s.taker_escrow.is_escrowed
       /\ escrowed_balances[TakerKey(s)] > 0

\* C11: past expires_at, with the escrow of only one party held, ClaimRefund
\* by that party returns its escrowed amount to its free balance and sets
\* Refunded; ClaimRefund by the party that never escrowed fails and credits
\* nothing.
C11_ExpiredOneSidedRefund ==
    \A sid \in DOMAIN settlements :
        LET s == settlements[sid] IN
        (/\ now > s.expires_at
         /\ s.maker # s.taker
         /\ HoldsEscrow(s, s.maker) # HoldsEscrow(s, s.taker))
        => LET holder == IF HoldsEscrow(s, s.maker) THEN s.maker ELSE s.taker
               other == IF HoldsEscrow(s, s.maker) THEN s.taker ELSE s.maker
               asset == IF HoldsEscrow(s, s.maker)
                        THEN s.maker_asset ELSE s.taker_asset
               held == escrowed_balances[<<sid, holder, asset>>]
               r == claim_refund(SState, now, holder, sid)
               q == claim_refund(SState, now, other, sid)
           IN /\ r.res = "Ok"
              /\ r.st.balances[<<holder, asset>>]
                     = balances[<<holder, asset>>] + held
              /\ held = (IF holder = s.maker THEN s.maker_escrow.amount
                         ELSE s.taker_escrow.amount)
              /\ r.st.escrowed_balances[<<sid, holder, asset>>] = 0
              /\ r.st.settlements[sid].status = "Refunded"
              /\ q.res # "Ok"
              /\ q.st.balances = balances
              /\ q.st.escrowed_balances = escrowed_balances

\* after expiry, a settlement only the maker had funded, refunded to the maker
C11_Witness ==
    \E sid \in DOMAIN settlements :
        LET s == settlements[sid] IN
        /\ now > s.expires_at
        /\ s.status = "Refunded"
        /\ s.maker # s.taker
        /\ s.maker_escrow.amount > 0
        /\ ~s.maker_escrow.is_escrowed
        /\ s.taker_escrow.amount = 0
        /\ balances[<<s.maker, s.maker_asset>>] >= s.maker_escrow.amount

\* C12: ClaimRefund by a party changes no free balance of another account
\* and no escrow entry but the caller's own under that settlement; what it
\* credits the caller is what it takes out of the caller's entry, at most the
\* recorded escrow amounts; and a repeated call does not credit the same
\* escrow again.
C12_RefundsOnlyCaller ==
    \A sid \in DOMAIN settlements :
        LET s == settlements[sid] IN
        \A c \in {s.maker, s.taker} :
            LET r == claim_refund(SState, now, c, sid)
                r2 == claim_refund(r.st, now, c, sid)
            IN /\ \A u \in Accounts, a \in Assets :
                    u # c => r.st.balances[<<u, a>>] = balances[<<u, a>>]
               /\ \A k \in DOMAIN escrowed_balances :
                    (k[1] # sid \/ k[2] # c)
                    => r.st.escrowed_balances[k] = escrowed_balances[k]
               /\ \A a \in Assets :
                    /\ r.st.balances[<<c, a>>] >= balances[<<c, a>>]
                    /\ r.st.balances[<<c, a>>] - balances[<<c, a>>]
                         = escrowed_balances[<<sid, c, a>>]
                             - r.st.escrowed_balances[<<sid, c, a>>]
                    /\ r.st.balances[<<c, a>>] - balances[<<c, a>>]
                         <= CancelRefund(s, c, a)
                    /\ r2.st.balances[<<c, a>>] - balances[<<c, a>>]
                         <= escrowed_balances[<<sid, c, a>>]

\* a party refunded by ClaimRefund while its counterparty has free funds
C12_Witness ==
    \E sid \in DOMAIN settlements :
        LET s == settlements[sid] IN
        /\ s.status = "Refunded"
        /\ s.maker # s.taker
        /\ s.maker_escrow.amount > 0 /\ ~s.maker_escrow.is_escrowed
        /\ balances[<<s.maker, s.maker_asset>>] >= s.maker_escrow.amount
        /\ balances[<<s.taker, s.taker_asset>>] > 0

\* C13: after a successful ClaimRefund, a settlement whose maker and taker
\* escrow entries are both zero has status Refunded.
C13_RefundedWhenEscrowsZero ==
    \A sid \in DOMAIN settlements :
        LET s == settlements[sid] IN
        \A c \in {s.maker, s.taker} :
            LET r == claim_refund(SState, now, c, sid) IN
            (/\ r.res = "Ok"
             /\ r.st.escrowed_balances[MakerKey(s)] = 0
             /\ r.st.escrowed_balances[TakerKey(s)] = 0)
            => r.st.settlements[sid].status = "Refunded"

\* C14: ConfirmEscrow, CancelSettlement and ClaimRefund called by an account
\* that is neither the maker nor the taker fail and change nothing.
C14_OutsidersRejected ==
    \A sid \in DOMAIN settlements :
        \A c \in Accounts \ {settlements[sid].maker, settlements[sid].taker} :
            /\ confirm_escrow(SState, now, c, sid).res # "Ok"
            /\ confirm_escrow(SState, now, c, sid).st = SState
            /\ cancel_settlement(SState, c, sid).res # "Ok"
            /\ cancel_settlement(SState, c, sid).st = SState
            /\ claim_refund(SState, now, c, sid).res # "Ok"
            /\ claim_refund(SState, now, c, sid).st = SState

\* an outsider is refused on a live settlement that holds the maker's escrow
C14_Witness ==
    \E sid \in DOMAIN settlements :
        LET s == settlements[sid] IN
        /\ s.status = "MakerEscrowed"
        /\ escrowed_balances[MakerKey(s)] > 0
        /\ "carol" \notin {s.maker, s.taker}
        /\ confirm_escrow(SState, now, "carol", sid).res = "Unauthorized"
        /\ cancel_settlement(SState, "carol", sid).res = "Unauthorized"
        /\ claim_refund(SState, now, "carol", sid).res = "Unauthorized"

\* C15: ExecuteSettlement on a settlement that is already Completed fails
\* with InvalidStatus and changes no balance, escrow entry, status or
\* statistic, however often it is repeated.
C15_ExecuteOnce ==
    \A sid \in DOMAIN settlements :
        settlements[sid].status = "Completed"
        => LET r == execute_settlement(SState, now, sid) IN
           /\ r.res = "InvalidStatus"
           /\ r.st = SState
           /\ execute_settlement(r.st, now, sid) = r

\* a swap both parties funded has completed and a further ExecuteSettlement
\* is refused
C15_Witness ==
    \E sid \in DOMAIN settlements :
        LET s == settlements[sid] IN
        /\ s.status = "Completed"
        /\ s.maker # s.taker
        /\ stats.completed_settlements >= 1
        /\ balances[<<s.taker, s.maker_asset>>] >= s.maker_amount
        /\ balances[<<s.maker, s.taker_asset>>] >= s.taker_amount
        /\ execute_settlement(SState, now, sid).res = "InvalidStatus"

\* the settlements a step moved to Expired
NewlyExpired ==
    {sid \in DOMAIN settlements :
        /\ settlements[sid].status # "Expired"
        /\ settlements'[sid].status = "Expired"}

\* C16: one ProcessExpiredSettlements call removes at most 10 entries from
\* the expiration queue and moves at most 10 settlements to Expired.
C16_ExpiryCallCapped ==
    [][/\ Len(expiration_queue) - Len(expiration_queue') <= ExpiredBatchCap
       /\ Cardinality(NewlyExpired) <= ExpiredBatchCap]_vars

\* the statuses from which a settlement still moves on
NonTerminal(status) ==
    status \in {"Pending", "MakerEscrowed", "TakerEscrowed", "FullyEscrowed",
                "Executing"}

\* C17: after a ProcessExpiredSettlements call that expired fewer than 10
\* settlements, the expiration queue holds no entry with expires_at <= now
\* whose settlement has a non-terminal status.
C17_DrainsEveryExpired ==
    LET r == process_expired_settlements(SState, now)
        expired == {sid \in DOMAIN settlements :
                       /\ settlements[sid].status # "Expired"
                       /\ r.st.settlements[sid].status = "Expired"}
        queue == r.st.expiration_queue
    IN Cardinality(expired) < ExpiredBatchCap
       => \A i \in DOMAIN queue :
             ~(/\ queue[i][1] <= now
               /\ NonTerminal(r.st.settlements[queue[i][2]].status))

\* C18: a ConfirmEscrow, ExecuteSettlement, CancelSettlement, ClaimRefund or
\* Withdraw that returns an error leaves the whole settlement state unchanged.
C18_ErrorsChangeNothing ==
    /\ \A sid \in SettlementIds, c \in Accounts :
          /\ confirm_escrow(SState, now, c, sid).res # "Ok"
             => confirm_escrow(SState, now, c, sid).st = SState
          /\ execute_settlement(SState, now, sid).res # "Ok"
             => execute_settlement(SState, now, sid).st = SState
          /\ cancel_settlement(SState, c, sid).res # "Ok"
             => cancel_settlement(SState, c, sid).st = SState
          /\ claim_refund(SState, now, c, sid).res # "Ok"
             => claim_refund(SState, now, c, sid).st = SState
    /\ \A u \in Accounts, a \in Assets, m \in Amounts :
          withdraw(SState, u, a, m).res # "Ok"
          => withdraw(SState, u, a, m).st = SState

\* what a SettlementRequest message says of the settlement it asks for
RequestOf(s) ==
    <<s.trade_id, s.maker, s.taker, s.maker_asset, s.taker_asset,
      s.maker_amount, s.taker_amount>>

\* C19: handling the same SettlementRequest message twice creates at most one
\* settlement; the second delivery adds no record and no queue entry and does
\* not advance next_settlement_id.
C19_RequestHandledOnce ==
    /\ \A i, j \in DOMAIN settlements :
          RequestOf(settlements[i]) = RequestOf(settlements[j]) => i = j
    /\ \A req \in QueuedRequests :
          (\E sid \in DOMAIN settlements :
              RequestOf(settlements[sid])
                  = <<req.trade_id, req.maker, req.taker, req.maker_asset,
                      req.taker_asset, req.maker_amount, req.taker_amount>>)
          => LET r == settlement_request(SState, now, req)
             IN /\ r.st.next_settlement_id = next_settlement_id
                /\ r.st.settlements = settlements
                /\ r.st.expiration_queue = expiration_queue

\* ---------------------------------------------------------- bridge: claims
BridgeFreeOf(a) ==
    SumOf(bridge_balances, {k \in DOMAIN bridge_balances : k[2] = a})

\* the amounts of the inbound transfers of asset a that have been Completed
InboundCompleted(a) ==
    SumOf([i \in DOMAIN transfers |-> transfers[i].amount],
          {i \in ever_completed :
              transfers[i].direction = "Inbound" /\ transfers[i].asset = a})

\* the net amounts of the outbound transfers of asset a that have been
\* Completed
OutboundCompleted(a) ==
    SumOf([i \in DOMAIN transfers |-> transfers[i].net_amount],
          {i \in ever_completed :
              transfers[i].direction = "Outbound" /\ transfers[i].asset = a})

\* C3: for every asset, the users' free balances plus the collected fees do
\* not exceed the inbound amounts that reached Completed minus the net
\* amounts of the outbound transfers that completed: no value is created.
C3_NoValueCreated ==
    \A a \in BridgeAssets :
        BridgeFreeOf(a) + collected_fees[a]
            <= InboundCompleted(a) - OutboundCompleted(a)

\* C4: over its lifetime an outbound transfer is credited back to its user
\* at most once, by exactly net_amount, over all CompleteWithdrawal(false)
\* and ClaimRefund calls made on it.
C4_RecreditedAtMostOnce ==
    \A i \in DOMAIN transfers :
        transfers[i].direction = "Outbound"
        => credited[i] \in {0, transfers[i].net_amount}

\* C7: an outbound transfer becomes Approved only from AwaitingApproval,
\* Executing only from Approved and Completed only from Executing, and a
\* transfer that is Completed or Refunded never changes status.
C7_StatusOrder ==
    [][\A i \in DOMAIN transfers :
         LET old == transfers[i].status
             new == transfers'[i].status
         IN /\ old \in {"Completed", "Refunded"} => new = old
            /\ (transfers[i].direction = "Outbound" /\ new # old) =>
                 /\ new = "Approved" => old = "AwaitingApproval"
                 /\ new = "Executing" => old = "Approved"
                 /\ new = "Completed" => old = "Executing"]_vars

\* C20: a ReportDeposit operation or DepositNotification message whose
\* tx_hash was already reported changes nothing, the operation failing with
\* DuplicateDeposit; no two inbound transfers share a source_tx_hash and no
\* inbound transfer is credited more than its net_amount.
C20_DuplicateDepositRejected ==
    /\ \A dep \in Deposits :
          dep.tx_hash \in DOMAIN processed_deposits
          => /\ ~is_paused =>
                  /\ paused_or(BState, report_deposit(BState, now, dep)).res
                         = "DuplicateDeposit"
                  /\ paused_or(BState, report_deposit(BState, now, dep)).st
                         = BState
             /\ deposit_notification(BState, now, dep).st = BState
    /\ \A i, j \in DOMAIN transfers :
          (/\ transfers[i].direction = "Inbound"
           /\ transfers[j].direction = "Inbound"
           /\ transfers[i].source_tx_hash = transfers[j].source_tx_hash)
          => i = j
    /\ \A i \in DOMAIN transfers :
          transfers[i].direction = "Inbound"
          => credited[i] \in {0, transfers[i].net_amount}

\* a deposit credited once, its tx_hash refused while a further transfer
\* could still be created
C20_Witness ==
    \E i \in DOMAIN transfers :
        /\ transfers[i].direction = "Inbound"
        /\ transfers[i].status = "Completed"
        /\ credited[i] = transfers[i].net_amount
        /\ credited[i] > 0
        /\ next_transfer_id <= MaxTransfers
        /\ \A dep \in Deposits :
              dep.tx_hash = transfers[i].source_tx_hash
              => report_deposit(BState, now, dep).res = "DuplicateDeposit"

\* C21: an inbound transfer credits its recipient once, exactly net_amount,
\* exactly when it becomes Completed: ReportDeposit with confirmations >=
\* required_confirmations ends Completed with net_amount credited, otherwise
\* Confirming with nothing credited; UpdateConfirmations reaching
\* required_confirmations completes and credits a Confirming transfer, and
\* below it credits nothing; no other operation credits an inbound transfer.
C21_InboundCreditedOnCompletion ==
    /\ \A i \in DOMAIN transfers :
          transfers[i].direction = "Inbound"
          => /\ credited[i]
                  = (IF i \in ever_completed THEN transfers[i].net_amount ELSE 0)
             /\ transfers[i].status = "Confirming" => i \notin ever_completed
    /\ \A dep \in Deposits :
          LET r == report_deposit(BState, now, dep)
              id == next_transfer_id
              key == <<dep.recipient, dep.asset>>
          IN r.res = "Ok"
             => IF dep.confirmations >= r.st.transfers[id].required_confirmations
                THEN /\ r.st.transfers[id].status = "Completed"
                     /\ r.st.balances[key]
                          = bridge_balances[key] + r.st.transfers[id].net_amount
                ELSE /\ r.st.transfers[id].status = "Confirming"
                     /\ r.st.balances = bridge_balances
    /\ \A i \in DOMAIN transfers, n \in 0..2 :
          LET r == update_confirmations(BState, now, i, n)
              tr == transfers[i]
              key == <<tr.user, tr.asset>>
          IN (tr.direction = "Inbound" /\ r.res = "Ok")
             => IF n >= tr.required_confirmations
                THEN /\ r.st.transfers[i].status = "Completed"
                     /\ r.st.balances[key] = bridge_balances[key] + tr.net_amount
                ELSE /\ r.st.transfers[i].status = "Confirming"
                     /\ r.st.balances = bridge_balances

\* a deposit that waited in Confirming and was credited on completion, the
\* time of its report already past
C21_Witness ==
    \E i \in DOMAIN transfers :
        /\ transfers[i].direction = "Inbound"
        /\ transfers[i].status = "Completed"
        /\ transfers[i].completed_at > transfers[i].expires_at - TransferLifetime
        /\ credited[i] = transfers[i].net_amount
        /\ credited[i] > 0

\* a withdrawal request that passes the checks made before the balance check
ValidWithdrawal(asset, amount) ==
    /\ Ethereum \in DOMAIN chain_configs
    /\ chain_configs[Ethereum].is_enabled
    /\ asset \in chain_configs[Ethereum].supported_assets
    /\ amount >= chain_configs[Ethereum].min_transfer_amount
    /\ amount <= chain_configs[Ethereum].max_transfer_amount

\* C22_Body(u, a, m): what initiate_withdrawal of m of asset a by u does
C22_Body(u, a, m) ==
    LET r == initiate_withdrawal(BState, now, u, Ethereum, "0xdest", a, m)
        id == next_transfer_id
        key == <<u, a>>
    IN /\ r.res = "Ok"
          => /\ GetOr0(r.st.balances, key) = GetOr0(bridge_balances, key) - m
             /\ \A k \in DOMAIN bridge_balances :
                    k # key => r.st.balances[k] = bridge_balances[k]
             /\ DOMAIN r.st.transfers = DOMAIN transfers \cup {id}
             /\ id \notin DOMAIN transfers
             /\ \A i \in DOMAIN transfers : r.st.transfers[i] = transfers[i]
             /\ r.st.transfers[id].status = "AwaitingApproval"
             /\ r.st.transfers[id].approvals = <<>>
             /\ r.st.transfers[id].user = u
             /\ r.st.transfers[id].amount = m
             /\ GetOr0(r.st.collected_fees, a)
                  = GetOr0(collected_fees, a) + r.st.transfers[id].fee
       /\ (ValidWithdrawal(a, m) /\ GetOr0(bridge_balances, key) < m)
          => /\ r.res = "InsufficientBalance"
             /\ r.st = BState
       /\ (ValidWithdrawal(a, m) /\ GetOr0(bridge_balances, key) >= m) => r.res = "Ok"

\* C22: a successful InitiateWithdrawal takes exactly amount from the caller's
\* free balance, adds exactly the transfer's fee to collected_fees, creates one
\* transfer in AwaitingApproval with no approvals and changes no other
\* balance; a request that is valid but for a free balance below amount fails
\* with InsufficientBalance and changes nothing.
C22_InitiateWithdrawal ==
    \A u \in BridgeCallers, a \in BridgeAssets, m \in TransferAmounts :
        C22_Body(u, a, m)

\* a withdrawal has been accepted, and the caller's balance no longer covers
\* a second one
C22_Witness ==
    /\ \E i \in DOMAIN transfers :
          /\ transfers[i].direction = "Outbound"
          /\ transfers[i].status = "AwaitingApproval"
          /\ transfers[i].approvals = <<>>
          /\ GetOr0(collected_fees, transfers[i].asset) >= transfers[i].fee
          /\ ValidWithdrawal(transfers[i].asset, transfers[i].amount)
          /\ bridge_balances[<<transfers[i].user, transfers[i].asset>>]
               < transfers[i].amount

RECURSIVE ActiveApprovalWeight(_, _)
\* the weights of the approvals' validators that are registered and active
ActiveApprovalWeight(vals, approvals) ==
    IF approvals = <<>> THEN 0
    ELSE (IF Head(approvals) \in DOMAIN vals /\ vals[Head(approvals)].is_active
          THEN vals[Head(approvals)].weight ELSE 0)
         + ActiveApprovalWeight(vals, Tail(approvals))

\* total validator weight * approval_threshold_percentage / 100
RequiredWeight == (total_validator_weight * approval_threshold_percentage) \div 100

\* C23: a successful ApproveTransfer moves a transfer from AwaitingApproval to
\* Approved exactly when the summed weight of the active validators that have
\* approved it is at least total validator weight * approval_threshold_percentage
\* / 100 (integer division), and below that leaves it AwaitingApproval.
C23_ApprovedAtActiveQuorum ==
    \A v \in Validators, i \in DOMAIN transfers :
        LET r == approve_transfer(BState, now, v, i) IN
        (transfers[i].status = "AwaitingApproval" /\ r.res = "Ok")
        => /\ r.st.transfers[i].status \in {"AwaitingApproval", "Approved"}
           /\ r.st.transfers[i].status = "Approved"
              <=> ActiveApprovalWeight(validators, r.st.transfers[i].approvals)
                     >= RequiredWeight

RECURSIVE SumWeights(_, _)
SumWeights(vals, S) ==
    IF S = {} THEN 0
    ELSE LET v == CHOOSE x \in S : TRUE
         IN vals[v].weight + SumWeights(vals, S \ {v})

\* C25: after any sequence of AddValidator and RemoveValidator,
\* total_validator_weight is the sum of the weights of the validators
\* currently in the validator map.
C25_TotalWeightIsSum ==
    total_validator_weight = SumWeights(validators, DOMAIN validators)

\* the validator is among the transfer's approvals
HasApproved(v, transfer) ==
    \E k \in DOMAIN transfer.approvals : transfer.approvals[k] = v

\* C24: no approvals list holds two entries of one validator; an ApproveTransfer
\* by a validator that has already approved the transfer fails and changes
\* nothing, with AlreadyApproved whenever the call gets as far as the
\* duplicate check (validator registered and active, transfer AwaitingApproval
\* or Approved); by an unregistered validator it fails with ValidatorNotFound
\* and by an inactive one with Unauthorized, each without changing anything.
C24_OneApprovalPerValidator ==
    /\ \A i \in DOMAIN transfers :
          \A k, l \in DOMAIN transfers[i].approvals :
              transfers[i].approvals[k] = transfers[i].approvals[l] => k = l
    /\ \A v \in Validators, i \in DOMAIN transfers :
          LET r == approve_transfer(BState, now, v, i) IN
          /\ HasApproved(v, transfers[i])
             => /\ r.res # "Ok"
                /\ r.st = BState
                /\ (/\ v \in DOMAIN validators
                    /\ validators[v].is_active
                    /\ transfers[i].status \in {"AwaitingApproval", "Approved"})
                   => r.res = "AlreadyApproved"
          /\ v \notin DOMAIN validators
             => r.res = "ValidatorNotFound" /\ r.st = BState
          /\ (v \in DOMAIN validators /\ ~validators[v].is_active)
             => r.res = "Unauthorized" /\ r.st = BState

\* a transfer still open to approvals, approved by a validator that is still
\* active, while another validator is registered and inactive
C24_Witness ==
    \E v, w \in Validators, i \in DOMAIN transfers :
        /\ HasApproved(v, transfers[i])
        /\ transfers[i].status = "AwaitingApproval"
        /\ v \in DOMAIN validators
        /\ validators[v].is_active
        /\ approve_transfer(BState, now, v, i).res = "AlreadyApproved"
        /\ w \in DOMAIN validators
        /\ ~validators[w].is_active
        /\ ~HasApproved(w, transfers[i])

\* C26: a successful ApproveTransfer leaves the validator set as it was and the
\* transfer's approval weight, measured over that set, at least what it was
\* before; an Approved transfer stays Approved under a further ApproveTransfer.
C26_ApprovalMonotonic ==
    \A v \in Validators, i \in DOMAIN transfers :
        LET r == approve_transfer(BState, now, v, i) IN
        r.res = "Ok"
        => /\ r.st.validators = validators
           /\ r.st.total_validator_weight = total_validator_weight
           /\ ApprovalWeight(r.st, r.st.transfers[i].approvals)
                >= ApprovalWeight(BState, transfers[i].approvals)
           /\ Len(r.st.transfers[i].approvals) = Len(transfers[i].approvals) + 1
           /\ transfers[i].status = "Approved"
              => r.st.transfers[i].status = "Approved"

\* an Approved transfer that a further validator can approve, the weight after
\* that approval still below the weight now required
C26_Witness ==
    \E v \in Validators, i \in DOMAIN transfers :
        LET r == approve_transfer(BState, now, v, i) IN
        /\ transfers[i].status = "Approved"
        /\ r.res = "Ok"
        /\ ApprovalWeight(r.st, r.st.transfers[i].approvals) < RequiredWeight
        /\ r.st.transfers[i].status = "Approved"

\* what execute_transfer answers in the current state
C27_ExecuteChecks ==
    \A i \in DOMAIN transfers :
        LET r == execute_transfer(BState, now, i)
            tr == transfers[i]
        IN /\ r.res = "Ok" <=> (tr.status = "Approved" /\ now <= tr.expires_at)
           /\ r.res = "Ok"
              => r.st = [BState EXCEPT !.transfers[i].status = "Executing"]
           /\ tr.status # "Approved" => r.res = "InvalidStatus" /\ r.st = BState
           /\ (tr.status = "Approved" /\ now > tr.expires_at)
              => r.res = "Expired" /\ r.st = BState
           /\ tr.status = "Executing" => tr.approvals # <<>>

\* how a transfer comes to be Executing, and an outbound one Approved
C27_Step ==
    \A i \in DOMAIN transfers' :
        LET new == transfers'[i]
            fresh == i \notin DOMAIN transfers
        IN /\ (new.status = "Executing"
               /\ (fresh \/ transfers[i].status # "Executing"))
              => /\ ~fresh
                 /\ transfers[i].status = "Approved"
                 /\ now <= transfers[i].expires_at
           /\ (new.status = "Approved"
               /\ (fresh \/ transfers[i].status # "Approved"))
              => /\ ~fresh
                 /\ transfers[i].status = "AwaitingApproval"
                 /\ validators' = validators
                 /\ ApprovalWeight([validators |-> validators], new.approvals)
                      >= RequiredWeight

C28_NetAndFee ==
    \A i \in DOMAIN transfers :
        LET tr == transfers[i] IN
        IF tr.fee > tr.amount THEN tr.net_amount = 0
        ELSE tr.net_amount + tr.fee = tr.amount

\* a transfer is created with the fee of the chain's settings of that moment,
\* and its amount, fee and net_amount are never rewritten
C28_Step ==
    \A i \in DOMAIN transfers' :
        LET new == transfers'[i] IN
        IF i \in DOMAIN transfers
        THEN /\ new.amount = transfers[i].amount
             /\ new.fee = transfers[i].fee
             /\ new.net_amount = transfers[i].net_amount
        ELSE /\ Ethereum \in DOMAIN chain_configs
             /\ chain_configs' = chain_configs
             /\ new.fee = chain_configs[Ethereum].base_fee
                  + ((new.amount * chain_configs[Ethereum].fee_percentage_bps)
                       \div 10000)

\* C28: every transfer, in every reachable state and whatever UpdateFees does
\* afterwards, has fee = base_fee + amount * fee_percentage_bps / 10000
\* (integer division, the chain's fee settings when the transfer was created)
\* and net_amount + fee = amount, or net_amount = 0 when fee > amount.
C28_FeeFormula == [] C28_NetAndFee /\ [][C28_Step]_vars

\* a transfer whose fee exceeds its amount, another whose fee was rounded
\* down, and fee settings that have changed since the first was created
C28_Witness ==
    \E i, j \in DOMAIN transfers :
        /\ transfers[i].fee > transfers[i].amount
        /\ transfers[i].net_amount = 0
        /\ transfers[j].fee < transfers[j].amount
        /\ transfers[j].net_amount > 0
        /\ i < j
        /\ Ethereum \in DOMAIN chain_configs
        /\ transfers[i].fee # TransferFee(chain_configs[Ethereum], transfers[i].amount)

\* what the handlers of the operations that name a transfer, a deposit, a
\* withdrawal or a validator answer in the current state
TransferOpResults ==
    {initiate_withdrawal(BState, now, u, Ethereum, "0xdest", a, m) :
         u \in BridgeCallers, a \in BridgeAssets, m \in TransferAmounts}
    \cup {report_deposit(BState, now, d) : d \in Deposits}
    \cup {update_confirmations(BState, now, i, n) : i \in TransferIds, n \in 0..2}
    \cup {approve_transfer(BState, now, v, i) : v \in Validators, i \in TransferIds}
    \cup {execute_transfer(BState, now, i) : i \in TransferIds}
    \cup {complete_withdrawal(BState, now, i, "0xout", ok) :
              i \in TransferIds, ok \in BOOLEAN}
    \cup {bridge_claim_refund(BState, now, c, i) :
              c \in BridgeCallers, i \in TransferIds}
    \cup {remove_validator(BState, v) : v \in Validators}

\* what the handlers of the remaining operations other than EmergencyPause and
\* Resume answer in the current state
AdminOpResults ==
    {process_expired_transfers(BState, now)}
    \cup {configure_chain(BState, c) : c \in ChainConfigs}
    \cup {disable_chain(BState, Ethereum)}
    \cup {add_validator(BState, v) : v \in AnyValidatorConfigs}
    \cup {update_fees(BState, Ethereum, b, p) : b \in BaseFees, p \in FeeBps}

\* the answers of execute_operation: Paused and no change while is_paused,
\* the handler's answer otherwise
C29_PausedAnswers ==
    \A r \in TransferOpResults \cup AdminOpResults :
        LET p == paused_or(BState, r) IN
        IF is_paused THEN p.res = "Paused" /\ p.st = BState ELSE p = r

\* a step taken while is_paused changes nothing of the bridge but is_paused
C29_PausedStep ==
    is_paused
    => UNCHANGED <<next_transfer_id, transfers, user_transfers, active_transfers,
                   transfer_expiration_queue, processed_deposits, chain_configs,
                   validators, total_validator_weight,
                   approval_threshold_percentage, bridge_balances, bridge_stats,
                   collected_fees>>

\* C29: while is_paused, every operation other than EmergencyPause and Resume
\* fails with Paused and changes no state; once Resume has cleared is_paused
\* the operations are answered by their handlers again.
C29_PausedRejectsAll == [] C29_PausedAnswers /\ [][C29_PausedStep]_vars

\* a paused bridge holding a transfer and a balance, on which a deposit and a
\* withdrawal would otherwise be accepted
C29_Witness ==
    /\ is_paused
    /\ transfers # <<>>
    /\ \E d \in Deposits : report_deposit(BState, now, d).res = "Ok"
    /\ \E u \in BridgeUsers, a \in BridgeAssets, m \in TransferAmounts :
          initiate_withdrawal(BState, now, u, Ethereum, "0xdest", a, m).res = "Ok"

\* C30: an InitiateWithdrawal, ReportDeposit, UpdateConfirmations,
\* ApproveTransfer, ExecuteTransfer, CompleteWithdrawal, ClaimRefund or
\* RemoveValidator that returns an error leaves the whole bridge state
\* unchanged.
C30_BridgeErrorsChangeNothing ==
    \A r \in TransferOpResults : r.res # "Ok" => r.st = BState

\* an Approved transfer past its expiry beside a Completed deposit:
\* ExecuteTransfer answers Expired on the first and InvalidStatus on the
\* second, ClaimRefund by another account Unauthorized, a second report of the
\* deposit DuplicateDeposit, RemoveValidator of an unregistered address
\* ValidatorNotFound
C30_Witness ==
    \E i, j \in DOMAIN transfers :
        /\ transfers[i].status = "Approved"
        /\ execute_transfer(BState, now, i).res = "Expired"
        /\ transfers[j].status = "Completed"
        /\ execute_transfer(BState, now, j).res = "InvalidStatus"
        /\ bridge_claim_refund(BState, now, "bob", i).res = "Unauthorized"
        /\ \E d \in Deposits : report_deposit(BState, now, d).res = "DuplicateDeposit"
        /\ remove_validator(BState, "v2").res = "ValidatorNotFound"

\* an outbound transfer whose funds are held by the bridge, past its expiry
HeldPastExpiry(tr) ==
    /\ tr.direction = "Outbound"
    /\ tr.status \in {"AwaitingApproval", "Approved", "Executing", "Expired"}
    /\ now > tr.expires_at

\* C31: for every outbound transfer that is AwaitingApproval, Approved,
\* Executing or Expired, once now > expires_at a ClaimRefund by its owner
\* succeeds, adds net_amount to the owner's balance of the asset and sets the
\* status to Refunded (on a bridge that is not paused: a paused one answers
\* Paused until Resume).
C31_RefundAfterExpiry ==
    \A i \in DOMAIN transfers :
        LET tr == transfers[i]
            key == <<tr.user, tr.asset>>
            r == paused_or(BState, bridge_claim_refund(BState, now, tr.user, i))
        IN (~is_paused /\ HeldPastExpiry(tr))
           => /\ r.res = "Ok"
              /\ r.st.transfers[i].status = "Refunded"
              /\ r.st.balances[key] = bridge_balances[key] + tr.net_amount
              /\ \A k \in DOMAIN bridge_balances :
                     k # key => r.st.balances[k] = bridge_balances[k]

\* an Executing withdrawal past its expiry, its owner not yet refunded
C31_Witness ==
    \E i \in DOMAIN transfers :
        /\ HeldPastExpiry(transfers[i])
        /\ transfers[i].status = "Executing"
        /\ transfers[i].net_amount > 0
        /\ credited[i] = 0

\* a step taken while is_paused leaves transfers, balances and fees alone
C37_Step ==
    is_paused => UNCHANGED <<transfers, bridge_balances, collected_fees>>

\* C37: while the bridge is paused no transfer is created or modified and no
\* balance or collected fee changes, whether an operation or an incoming
\* message (DepositNotification, ValidatorSignature) is handled.
C37_PausedChangesNothing == [][C37_Step]_vars

\* C38: no outbound transfer has had its net_amount credited back to its user
\* and is also Completed with a destination_tx_hash recorded, under any
\* interleaving of ProcessExpiredTransfers, ClaimRefund and CompleteWithdrawal.
C38_NeverRefundedAndPaid ==
    \A i \in DOMAIN transfers :
        transfers[i].direction = "Outbound"
        => ~(/\ credited[i] >= transfers[i].net_amount
             /\ credited[i] > 0
             /\ transfers[i].status = "Completed"
             /\ transfers[i].destination_tx_hash # "None")

\* --------------------------------------------------- order book: the ledger
\* Bound of the order book: the most of one asset deposited at a time
MaxObSupply == 3

ObAmounts == 1..MaxObSupply

\* OrderBookState as one value
OState ==
    [next_order_id |-> next_order_id, orders |-> orders,
     buy_levels |-> buy_levels, sell_levels |-> sell_levels,
     best_bid |-> best_bid, best_ask |-> best_ask,
     balances |-> ob_balances, locked_balances |-> locked_balances,
     collected_fees |-> ob_collected_fees, trades |-> trades,
     next_trade_id |-> next_trade_id, last_price |-> last_price]

\* the views are written as the operation leaves them
OCommit(r) ==
    /\ next_order_id' = r.st.next_order_id
    /\ orders' = r.st.orders
    /\ buy_levels' = r.st.buy_levels
    /\ sell_levels' = r.st.sell_levels
    /\ best_bid' = r.st.best_bid
    /\ best_ask' = r.st.best_ask
    /\ ob_balances' = r.st.balances
    /\ locked_balances' = r.st.locked_balances
    /\ ob_collected_fees' = r.st.collected_fees
    /\ trades' = r.st.trades
    /\ next_trade_id' = r.st.next_trade_id
    /\ last_price' = r.st.last_price
    /\ UNCHANGED <<bvars, xvars, tvars>>

\* OrderBookContract::deposit
ob_deposit(st, user, asset, amount) ==
    LET balance_key == <<user, asset>>
        current_balance == GetOr0(st.balances, balance_key)
        new_balance == current_balance + amount
    IN Ok([st EXCEPT !.balances = MapInsert(@, balance_key, new_balance)])

\* mutant: the balance is not compared with the amount
ob_withdraw_unchecked(st, user, asset, amount) ==
    LET balance_key == <<user, asset>>
        current_balance == GetOr0(st.balances, balance_key)
    IN Ok([st EXCEPT !.balances =
              MapInsert(@, balance_key, current_balance - amount)])

\* OrderBookContract::withdraw
ob_withdraw(st, user, asset, amount) ==
    LET balance_key == <<user, asset>>
        current_balance == GetOr0(st.balances, balance_key)
    IN IF current_balance < amount
       THEN Err(st, "InsufficientBalance")
       ELSE LET new_balance == current_balance - amount
            IN Ok([st EXCEPT !.balances =
                      MapInsert(@, balance_key, new_balance)])

\* what the order book holds of an asset, free and locked
ObHeld(asset) ==
    LET Of(u) == GetOr0(ob_balances, <<u, asset>>)
                 + GetOr0(locked_balances, <<u, asset>>)
    IN Of("alice") + Of("bob")

ObDeposit(user, asset, amount) ==
    /\ ObHeld(asset) + amount <= MaxObSupply
    /\ OCommit(ob_deposit(OState, user, asset, amount))
    /\ UNCHANGED <<now, sviews>>

ObWithdraw(user, asset, amount) ==
    /\ OCommit(ob_withdraw(OState, user, asset, amount))
    /\ UNCHANGED <<now, sviews>>

LNext ==
    \/ \E u \in Traders, a \in MarketAssets, m \in ObAmounts :
          ObDeposit(u, a, m)
    \/ \E u \in Traders, a \in MarketAssets, m \in ObAmounts :
          ObWithdraw(u, a, m)
    \/ \E u \in Traders, a \in Assets, m \in Amounts : Deposit(u, a, m)
    \/ \E u \in Traders, a \in Assets, m \in Amounts : Withdraw(u, a, m)

SpecLedgers == Init /\ [][LNext]_vars

\* C32: in the order book and in the settlement contract, Deposit answers Ok
\* and adds exactly amount to the caller's free balance of the asset; Withdraw
\* answers Ok and subtracts exactly amount when the free balance is at least
\* amount, and otherwise answers InsufficientBalance and leaves every balance
\* as it was; no other account's or asset's balance, and no other view, is
\* changed by either.
C32_Ledger(st, key, m, d, w) ==
    LET Free(x, k) == GetOr0(x.balances, k)
        Keys(x) == (DOMAIN x.balances) \cup {key}
    IN /\ d.res = "Ok"
       /\ \A k \in Keys(d.st) \cup Keys(st) :
             Free(d.st, k) = Free(st, k) + (IF k = key THEN m ELSE 0)
       /\ [d.st EXCEPT !.balances = st.balances] = st
       /\ IF Free(st, key) >= m
          THEN /\ w.res = "Ok"
               /\ \A k \in Keys(w.st) \cup Keys(st) :
                     Free(w.st, k) = Free(st, k) - (IF k = key THEN m ELSE 0)
               /\ [w.st EXCEPT !.balances = st.balances] = st
          ELSE /\ w.res = "InsufficientBalance"
               /\ w.st = st

C32_DepositWithdrawExact ==
    /\ \A u \in Traders, a \in MarketAssets, m \in ObAmounts :
          C32_Ledger(OState, <<u, a>>, m, ob_deposit(OState, u, a, m),
                     ob_withdraw(OState, u, a, m))
    /\ \A u \in Accounts, a \in Assets, m \in Amounts :
          C32_Ledger(SState, <<u, a>>, m, deposit(SState, u, a, m),
                     withdraw(SState, u, a, m))

\* both ledgers hold funds of two accounts, so that a withdrawal of one
\* amount succeeds for an account and fails for another, in both contracts
C32_Witness ==
    /\ GetOr0(ob_balances, <<"alice", "BTC">>) = 2
    /\ GetOr0(ob_balances, <<"bob", "BTC">>) = 1
    /\ GetOr0(ob_balances, <<"bob", "USDT">>) = 3
    /\ ob_withdraw(OState, "alice", "BTC", 2).res = "Ok"
    /\ ob_withdraw(OState, "bob", "BTC", 2).res = "InsufficientBalance"
    /\ GetOr0(balances, <<"alice", "X">>) = 1
    /\ GetOr0(balances, <<"bob", "Y">>) = 1
    /\ withdraw(SState, "alice", "X", 1).res = "Ok"
    /\ withdraw(SState, "bob", "X", 1).res = "InsufficientBalance"

\* ------------------------------------------------- order book: one Order
\* Bound of the quantities of an Order value
MaxQuantity == 4

Quantities == 0..MaxQuantity

\* Order values, any quantity against any filled quantity
AnyOrders ==
    {[TestOrder EXCEPT !.side = s, !.quantity = q, !.filled_quantity = f] :
        s \in {"Buy", "Sell"}, q \in Quantities, f \in Quantities}

OrderInit ==
    /\ SInit /\ BInit /\ OInit /\ XInit
    /\ an_order \in AnyOrders
    /\ its_remaining_quantity = <<>>
    /\ its_is_fully_filled = <<>>

RemainingQuantity ==
    /\ its_remaining_quantity' = <<remaining_quantity(an_order)>>
    /\ UNCHANGED <<an_order, its_is_fully_filled, svars, bvars, ovars, xvars>>

IsFullyFilled ==
    /\ its_is_fully_filled' = <<is_fully_filled(an_order)>>
    /\ UNCHANGED <<an_order, its_remaining_quantity, svars, bvars, ovars, xvars>>

OrderNext == RemainingQuantity \/ IsFullyFilled

SpecOrder == OrderInit /\ [][OrderNext]_vars

\* C36: remaining_quantity() answers quantity - filled_quantity, and 0 when
\* filled_quantity exceeds quantity; is_fully_filled() answers true exactly
\* when remaining_quantity() is 0, that is when filled_quantity >= quantity.
C36_RemainingAndFullyFilled ==
    LET q == an_order.quantity
        f == an_order.filled_quantity
    IN /\ its_remaining_quantity # <<>> =>
             /\ f <= q => its_remaining_quantity[1] + f = q
             /\ f > q => its_remaining_quantity[1] = 0
       /\ its_is_fully_filled # <<>> =>
             /\ its_is_fully_filled[1] = (remaining_quantity(an_order) = 0)
             /\ its_is_fully_filled[1] = (f >= q)

\* both methods were called on an order filled beyond its quantity
C36_Witness ==
    /\ an_order.filled_quantity > an_order.quantity
    /\ its_remaining_quantity = <<0>>
    /\ its_is_fully_filled = <<TRUE>>

\* ------------------------------------------- settlement: its bridge part
\* Bound: the most an account's free balance grows to in the bridge part
MaxSBalance == 3

SChains == {"eth", "sol"}
ConfirmationBlocks == 2
SBridgeAmounts == 1..3
SDestination == "0xdest"

\* BridgeConfig values: a fee of nothing or of a half
BridgeConfigs ==
    [confirmation_blocks : {ConfirmationBlocks}, min_amount : {1},
     max_amount : {2}, fee_rate_bps : {0, 5000}, is_active : {TRUE},
     supported_assets : {{"X"}}]

\* the views of SettlementState that the bridge part reads and writes
XState ==
    [next_transfer_id |-> s_next_transfer_id,
     bridge_transfers |-> bridge_transfers,
     user_transfers |-> s_user_transfers,
     pending_deposits |-> pending_deposits,
     pending_withdrawals |-> pending_withdrawals,
     bridge_configs |-> bridge_configs,
     balances |-> balances,
     stats |-> bridge_totals]

\* SettlementContract::configure_bridge
configure_bridge(st, chain_id, config) ==
    Ok([st EXCEPT !.bridge_configs = MapInsert(@, chain_id, config)])

\* SettlementContract::disable_bridge
disable_bridge(st, chain_id) ==
    IF chain_id \notin DOMAIN st.bridge_configs
    THEN Err(st, "BridgeNotConfigured")
    ELSE Ok([st EXCEPT !.bridge_configs[chain_id].is_active = FALSE])

\* "Verify bridge configuration": the answer of the checks that deposits and
\* withdrawals share, "Ok" when all pass
verify_bridge(st, chain_id, asset, amount) ==
    IF chain_id \notin DOMAIN st.bridge_configs THEN "BridgeNotConfigured"
    ELSE LET config == st.bridge_configs[chain_id]
         IN IF ~config.is_active THEN "BridgeDisabled"
            ELSE IF asset \notin config.supported_assets
                 THEN "AssetNotSupported"
            ELSE IF amount < config.min_amount THEN "BelowMinimum"
            ELSE IF amount > config.max_amount THEN "AboveMaximum"
            ELSE "Ok"

\* SettlementContract::process_bridge_deposit
process_bridge_deposit(st, t, chain_id, tx_hash, user, asset, amount, confirmations) ==
    LET checked == verify_bridge(st, chain_id, asset, amount)
    IN IF checked # "Ok" THEN Err(st, checked)
       ELSE IF tx_hash \in DOMAIN st.pending_deposits
            THEN Err(st, "BridgeError")
       ELSE LET config == st.bridge_configs[chain_id]
                status == IF confirmations >= config.confirmation_blocks
                          THEN "Completed" ELSE "Confirming"
                transfer_id == st.next_transfer_id
                transfer ==
                    [id |-> transfer_id, chain_id |-> chain_id,
                     user |-> user, asset |-> asset, amount |-> amount,
                     direction |-> "Deposit", status |-> status,
                     tx_hash |-> tx_hash, destination_address |-> "None",
                     created_at |-> t,
                     completed_at |-> IF status = "Completed" THEN t ELSE None,
                     confirmations |-> confirmations]
                st1 == [st EXCEPT
                         !.bridge_transfers = MapInsert(@, transfer_id, transfer),
                         !.pending_deposits = MapInsert(@, tx_hash, transfer_id),
                         !.next_transfer_id = transfer_id + 1]
            IN IF status = "Completed"
               THEN LET fee == (amount * config.fee_rate_bps) \div 10000
                        credited_amount == amount - fee
                        balance_key == <<user, asset>>
                        current_balance == GetOr0(st1.balances, balance_key)
                    IN Ok([st1 EXCEPT
                             !.balances = MapInsert(@, balance_key,
                                              current_balance + credited_amount),
                             !.stats.total_bridge_deposits = @ + credited_amount])
               ELSE Ok(st1)

\* SettlementContract::initiate_bridge_withdrawal
initiate_bridge_withdrawal(st, t, user, chain_id, asset, amount, destination_address) ==
    LET checked == verify_bridge(st, chain_id, asset, amount)
        balance_key == <<user, asset>>
        current_balance == GetOr0(st.balances, balance_key)
    IN IF checked # "Ok" THEN Err(st, checked)
       ELSE IF current_balance < amount THEN Err(st, "InsufficientBalance")
       ELSE LET new_balance == current_balance - amount
                transfer_id == st.next_transfer_id
                transfer ==
                    [id |-> transfer_id, chain_id |-> chain_id,
                     user |-> user, asset |-> asset, amount |-> amount,
                     direction |-> "Withdrawal", status |-> "Pending",
                     tx_hash |-> "None",
                     destination_address |-> destination_address,
                     created_at |-> t, completed_at |-> None,
                     confirmations |-> 0]
                transfers_of_user == IF user \in DOMAIN st.user_transfers
                                  THEN st.user_transfers[user] ELSE <<>>
            IN Ok([st EXCEPT
                     !.balances = MapInsert(@, balance_key, new_balance),
                     !.bridge_transfers = MapInsert(@, transfer_id, transfer),
                     !.pending_withdrawals = Append(@, transfer_id),
                     !.next_transfer_id = transfer_id + 1,
                     !.user_transfers =
                         MapInsert(@, user, Append(transfers_of_user, transfer_id))])

\* SettlementContract::complete_bridge_withdrawal
complete_bridge_withdrawal(st, t, transfer_id, tx_hash, success) ==
    IF transfer_id \notin DOMAIN st.bridge_transfers
    THEN Err(st, "TransferNotFound")
    ELSE LET transfer == st.bridge_transfers[transfer_id]
         IN IF success
            THEN Ok([st EXCEPT
                      !.bridge_transfers[transfer_id].status = "Completed",
                      !.bridge_transfers[transfer_id].tx_hash = tx_hash,
                      !.bridge_transfers[transfer_id].completed_at = t,
                      !.stats.total_bridge_withdrawals = @ + transfer.amount])
            ELSE LET balance_key == <<transfer.user, transfer.asset>>
                     current_balance == GetOr0(st.balances, balance_key)
                 IN Ok([st EXCEPT
                          !.bridge_transfers[transfer_id].status = "Failed",
                          !.balances = MapInsert(@, balance_key,
                                           current_balance + transfer.amount)])

\* the views are written as the operation leaves them
XCommit(r) ==
    /\ s_next_transfer_id' = r.st.next_transfer_id
    /\ bridge_transfers' = r.st.bridge_transfers
    /\ s_user_transfers' = r.st.user_transfers
    /\ pending_deposits' = r.st.pending_deposits
    /\ pending_withdrawals' = r.st.pending_withdrawals
    /\ bridge_configs' = r.st.bridge_configs
    /\ balances' = r.st.balances
    /\ bridge_totals' = r.st.stats
    /\ UNCHANGED <<now, next_settlement_id, settlements, user_settlements,
                   active_settlements, expiration_queue, escrowed_balances,
                   stats, net_deposited, bvars, ovars, tvars>>

ConfigureBridge(chain_id, config) ==
    /\ XCommit(configure_bridge(XState, chain_id, config))
    /\ UNCHANGED recredited

DisableBridge(chain_id) ==
    /\ XCommit(disable_bridge(XState, chain_id))
    /\ UNCHANGED recredited

ProcessBridgeDeposit(chain_id, tx_hash, user, asset, amount, confirmations) ==
    /\ s_next_transfer_id <= MaxSBridgeTransfers
    /\ GetOr0(balances, <<user, asset>>) + amount <= MaxSBalance
    /\ XCommit(process_bridge_deposit(XState, now, chain_id, tx_hash, user,
                                      asset, amount, confirmations))
    /\ UNCHANGED recredited

InitiateBridgeWithdrawal(user, chain_id, asset, amount) ==
    /\ s_next_transfer_id <= MaxSBridgeTransfers
    /\ XCommit(initiate_bridge_withdrawal(XState, now, user, chain_id, asset,
                                          amount, SDestination))
    /\ UNCHANGED recredited

\* recredited counts, per transfer, the calls that paid its amount back
CompleteBridgeWithdrawal(transfer_id, tx_hash, success) ==
    LET r == complete_bridge_withdrawal(XState, now, transfer_id, tx_hash,
                                        success)
    IN /\ \A k \in DOMAIN r.st.balances : r.st.balances[k] <= MaxSBalance
       /\ r.st.stats.total_bridge_withdrawals <= MaxSBalance
       /\ XCommit(r)
       /\ recredited' = IF r.res = "Ok" /\ ~success
                        THEN [recredited EXCEPT ![transfer_id] = @ + 1]
                        ELSE recredited

XNext ==
    \/ \E config \in BridgeConfigs : ConfigureBridge("eth", config)
    \/ \E c \in SChains : DisableBridge(c)
    \/ \E c \in SChains, h \in TxHashes, u \in Traders, a \in Assets,
          m \in SBridgeAmounts, n \in {0, ConfirmationBlocks} :
          ProcessBridgeDeposit(c, h, u, a, m, n)
    \/ \E u \in Traders, c \in SChains, a \in Assets, m \in SBridgeAmounts :
          InitiateBridgeWithdrawal(u, c, a, m)
    \/ \E i \in SBridgeTransferIds, h \in TxHashes, ok \in BOOLEAN :
          CompleteBridgeWithdrawal(i, h, ok)

SpecSettlementBridge == Init /\ [][XNext]_vars

\* C39: every bridge deposit that ProcessBridgeDeposit accepted can be
\* credited: for a deposit recorded as Confirming on a chain that is still
\* configured and active, reporting the same tx_hash again with
\* confirmation_blocks confirmations answers Ok and credits the user with the
\* amount less the bridge fee.
C39_ConfirmingDepositCredited ==
    \A i \in DOMAIN bridge_transfers :
        LET tr == bridge_transfers[i]
            key == <<tr.user, tr.asset>>
            r == process_bridge_deposit(XState, now, tr.chain_id, tr.tx_hash,
                     tr.user, tr.asset, tr.amount, ConfirmationBlocks)
            fee == (tr.amount * bridge_configs[tr.chain_id].fee_rate_bps)
                       \div 10000
        IN (/\ tr.direction = "Deposit"
            /\ tr.status = "Confirming"
            /\ verify_bridge(XState, tr.chain_id, tr.asset, tr.amount) = "Ok")
           => /\ r.res = "Ok"
              /\ GetOr0(r.st.balances, key)
                     = GetOr0(balances, key) + tr.amount - fee

\* C40: CompleteBridgeWithdrawal pays a transfer's amount back only for a
\* Withdrawal that is still Pending, and at most once per transfer: no call
\* on a Deposit, or on a Completed or Failed transfer, increases a free
\* balance, and no transfer has been paid back more than once.
C40_RecreditOnlyPendingWithdrawal ==
    /\ \A i \in SBridgeTransferIds : recredited[i] <= 1
    /\ \A i \in DOMAIN bridge_transfers, h \in TxHashes, ok \in BOOLEAN :
          LET tr == bridge_transfers[i]
              r == complete_bridge_withdrawal(XState, now, i, h, ok)
          IN (\E k \in DOMAIN r.st.balances :
                  r.st.balances[k] > GetOr0(balances, k))
             => tr.direction = "Withdrawal" /\ tr.status = "Pending"

\* ---------------------------------------------- order book: the matching
\* Bounds of the order book: orders placed, and the prices and quantities
\* of an order, in whole units of 10^8
MaxOrders == 3
MaxPrice == 2
MaxOrderQuantity == 2

OrderIds == 1..MaxOrders
Prices == 0..MaxPrice
OrderQuantities == 0..(MaxOrderQuantity + 1)
OrderSides == {"Buy", "Sell"}
TimesInForce == {"GTC", "IOC", "FOK", "PostOnly"}

\* MarketConfig::default, sizes in whole units of 10^8
MarketConfigDefault ==
    [base_asset |-> "BTC", quote_asset |-> "USDT", min_order_size |-> 1,
     max_order_size |-> MaxOrderQuantity, tick_size |-> 1,
     maker_fee_bps |-> 10, taker_fee_bps |-> 20, is_active |-> TRUE]

\* Order::is_active
is_active(self) == self.status \in {"Open", "PartiallyFilled", "Pending"}

\* Order::can_match
can_match(self, other) ==
    IF self.side = "Buy" /\ other.side = "Sell" THEN self.price >= other.price
    ELSE IF self.side = "Sell" /\ other.side = "Buy"
         THEN self.price <= other.price
    ELSE FALSE

\* the cost in quote of a quantity at a price (p * q / 10^8, both in whole
\* units of 10^8)
Cost(price, quantity) == price * quantity

\* BalanceLedger: lock moves from free to locked
lock(st, account, asset, amount) ==
    LET key == <<account, asset>>
    IN IF GetOr0(st.balances, key) < amount
       THEN Err(st, "InsufficientBalance")
       ELSE Ok([st EXCEPT
                 !.balances = MapInsert(@, key, GetOr0(st.balances, key) - amount),
                 !.locked_balances =
                     MapInsert(@, key, GetOr0(st.locked_balances, key) + amount)])

\* BalanceLedger: unlock moves from locked back to free
unlock(st, account, asset, amount) ==
    LET key == <<account, asset>>
    IN [st EXCEPT
         !.locked_balances =
             MapInsert(@, key, GetOr0(st.locked_balances, key) - amount),
         !.balances = MapInsert(@, key, GetOr0(st.balances, key) + amount)]

\* BalanceLedger: move_locked takes from locked[from] and credits free[to]
move_locked(st, from, to, asset, amount) ==
    LET st1 == [st EXCEPT !.locked_balances =
                   MapInsert(@, <<from, asset>>,
                             GetOr0(st.locked_balances, <<from, asset>>) - amount)]
    IN [st1 EXCEPT !.balances =
           MapInsert(@, <<to, asset>>, GetOr0(st1.balances, <<to, asset>>) + amount)]

\* the fee on received funds goes from the receiver to collected_fees
take_fee(st, account, asset, fee) ==
    [st EXCEPT
      !.balances = MapInsert(@, <<account, asset>>,
                             GetOr0(st.balances, <<account, asset>>) - fee),
      !.collected_fees[asset] = @ + fee]

\* best_bid: the highest bid level, if any
BestBid(levels) ==
    IF DOMAIN levels = {} THEN None
    ELSE CHOOSE p \in DOMAIN levels : \A q \in DOMAIN levels : q <= p

\* best_ask: the lowest ask level, if any
BestAsk(levels) ==
    IF DOMAIN levels = {} THEN None
    ELSE CHOOSE p \in DOMAIN levels : \A q \in DOMAIN levels : p <= q

\* the best-price caches reflect the top non-empty levels
refresh_best(st) ==
    [st EXCEPT !.best_bid = BestBid(st.buy_levels),
               !.best_ask = BestAsk(st.sell_levels)]

\* a resting order leaves its price level, with what remained of it
level_remove(levels, price, order_id, remaining) ==
    LET level == levels[price]
        rest == SelectSeq(level.orders, LAMBDA i : i # order_id)
    IN IF rest = <<>> THEN MapDelete(levels, price)
       ELSE [levels EXCEPT ![price] =
               [total_quantity |-> level.total_quantity - remaining,
                orders |-> rest]]

\* an order comes to rest at the end of its price level
level_append(levels, price, order_id, remaining) ==
    IF price \in DOMAIN levels
    THEN [levels EXCEPT ![price] =
            [total_quantity |-> @.total_quantity + remaining,
             orders |-> Append(@.orders, order_id)]]
    ELSE MapInsert(levels, price,
                   [total_quantity |-> remaining, orders |-> <<order_id>>])

\* the status of an order after a fill
FilledStatus(order) ==
    IF is_fully_filled(order) THEN "Filled" ELSE "PartiallyFilled"

\* the fill price is the resting order's price
FillPrice(taker, maker) == maker.price

\* mutant: the last order of a level is matched first
NextMakerLast(level) == level.orders[Len(level.orders)]

\* a level is consumed in FIFO order
NextMaker(level) == Head(level.orders)

\* one fill of the taker against the resting order maker_id (4.2.3 step 3,
\* 4.2.4): a Trade, the assets moved, both orders updated, the maker popped
\* when nothing remains of it
fill(st, t, taker_id, maker_id) ==
    LET taker == st.orders[taker_id]
        maker == st.orders[maker_id]
        p == FillPrice(taker, maker)
        q == IF remaining_quantity(taker) < remaining_quantity(maker)
             THEN remaining_quantity(taker) ELSE remaining_quantity(maker)
        c == Cost(p, q)
        base == MarketConfigDefault.base_asset
        quote == MarketConfigDefault.quote_asset
        taker_fee == (c * MarketConfigDefault.taker_fee_bps) \div 10000
        maker_fee == (c * MarketConfigDefault.maker_fee_bps) \div 10000
        buyer == IF taker.side = "Buy" THEN taker ELSE maker
        seller == IF taker.side = "Buy" THEN maker ELSE taker
        trade == [id |-> st.next_trade_id, maker_order_id |-> maker_id,
                  taker_order_id |-> taker_id, price |-> p, quantity |-> q,
                  timestamp |-> t, maker |-> maker.user, taker |-> taker.user,
                  maker_side |-> maker.side]
        \* the buyer locked its own limit price: what the fill price spares
        \* is unlocked
        st1 == unlock(st, buyer.user, quote, Cost(buyer.price, q) - c)
        st2 == move_locked(st1, buyer.user, seller.user, quote, c)
        st3 == move_locked(st2, seller.user, buyer.user, base, q)
        st4 == take_fee(st3, taker.user,
                        IF taker.side = "Buy" THEN base ELSE quote, taker_fee)
        st5 == take_fee(st4, maker.user,
                        IF maker.side = "Buy" THEN base ELSE quote, maker_fee)
        taker1 == [taker EXCEPT !.filled_quantity = @ + q]
        maker1 == [maker EXCEPT !.filled_quantity = @ + q]
        st6 == [st5 EXCEPT
                 !.orders[taker_id] = [taker1 EXCEPT !.status = FilledStatus(taker1)],
                 !.orders[maker_id] = [maker1 EXCEPT !.status = FilledStatus(maker1)],
                 !.trades = Append(@, trade),
                 !.next_trade_id = @ + 1,
                 !.last_price = p]
        st7 == IF maker.side = "Sell"
               THEN [st6 EXCEPT !.sell_levels =
                       IF is_fully_filled(maker1)
                       THEN level_remove(@, maker.price, maker_id, q)
                       ELSE [@ EXCEPT ![maker.price].total_quantity = @ - q]]
               ELSE [st6 EXCEPT !.buy_levels =
                       IF is_fully_filled(maker1)
                       THEN level_remove(@, maker.price, maker_id, q)
                       ELSE [@ EXCEPT ![maker.price].total_quantity = @ - q]]
    IN refresh_best(st7)

\* the best opposite level is consumed until the taker is filled, the
\* opposite side is exhausted or its best price no longer crosses
RECURSIVE match_order(_, _, _)
match_order(st, t, taker_id) ==
    LET taker == st.orders[taker_id]
        best == IF taker.side = "Buy" THEN st.best_ask ELSE st.best_bid
        levels == IF taker.side = "Buy" THEN st.sell_levels ELSE st.buy_levels
    IN IF is_fully_filled(taker) \/ best = None THEN st
       ELSE LET maker_id == NextMaker(levels[best])
            IN IF ~can_match(taker, st.orders[maker_id]) THEN st
               ELSE match_order(fill(st, t, taker_id, maker_id), t, taker_id)

\* the quantity resting on the opposite side at prices the order crosses
RECURSIVE CrossingDepth(_, _, _)
CrossingDepth(levels, side, price) ==
    IF DOMAIN levels = {} THEN 0
    ELSE LET p == CHOOSE x \in DOMAIN levels : TRUE
             crossing == IF side = "Buy" THEN p <= price ELSE p >= price
         IN (IF crossing THEN levels[p].total_quantity ELSE 0)
            + CrossingDepth(MapDelete(levels, p), side, price)

\* the order would match at placement
would_match(st, side, price) ==
    IF side = "Buy" THEN st.best_ask # None /\ price >= st.best_ask
    ELSE st.best_bid # None /\ price <= st.best_bid

\* what an order of a side locks: Q*P of quote for a Buy, Q of base for a Sell
lock_asset(side) ==
    IF side = "Buy" THEN MarketConfigDefault.quote_asset
    ELSE MarketConfigDefault.base_asset

lock_amount(side, price, quantity) ==
    IF side = "Buy" THEN Cost(price, quantity) ELSE quantity

\* 4.2.3 step 1
validate_order(price, quantity) ==
    IF ~MarketConfigDefault.is_active THEN "MarketClosed"
    ELSE IF quantity < MarketConfigDefault.min_order_size THEN "BelowMinimumSize"
    ELSE IF quantity > MarketConfigDefault.max_order_size THEN "AboveMaximumSize"
    ELSE IF price % MarketConfigDefault.tick_size # 0 THEN "InvalidTickSize"
    ELSE IF price = 0 THEN "InvalidOrder"
    ELSE "Ok"

\* mutant: a PostOnly order is matched like any other
post_only_rejected_never(st, side, price, time_in_force) == FALSE

\* 4.2.3 step 4, PostOnly
post_only_rejected(st, side, price, time_in_force) ==
    time_in_force = "PostOnly" /\ would_match(st, side, price)

\* 4.2.3 step 4, FOK: the pre-check of the crossing depth
fok_rejected(st, side, price, quantity, time_in_force) ==
    /\ time_in_force = "FOK"
    /\ CrossingDepth(IF side = "Buy" THEN st.sell_levels ELSE st.buy_levels,
                     side, price) < quantity

\* PlaceOrder of a limit order without expiry (4.2.3): validate, lock, match,
\* then the time-in-force rule; a rejected order leaves no state change
place_order(st, t, user, side, price, quantity, time_in_force) ==
    LET checked == validate_order(price, quantity)
        locked == lock(st, user, lock_asset(side),
                       lock_amount(side, price, quantity))
    IN IF checked # "Ok" THEN Err(st, checked)
       ELSE IF locked.res # "Ok" THEN Err(st, locked.res)
       ELSE IF post_only_rejected(st, side, price, time_in_force)
            THEN Err(st, "InvalidOrder(would take liquidity)")
       ELSE IF fok_rejected(st, side, price, quantity, time_in_force)
            THEN Err(st, "InvalidOrder(cannot fill)")
       ELSE
       LET order_id == st.next_order_id
           order == [id |-> order_id, user |-> user, side |-> side,
                     order_type |-> "Limit", price |-> price,
                     quantity |-> quantity, filled_quantity |-> 0,
                     status |-> "Open", time_in_force |-> time_in_force,
                     timestamp |-> t, expires_at |-> None]
           st1 == [locked.st EXCEPT !.orders = MapInsert(@, order_id, order),
                                    !.next_order_id = order_id + 1]
           st2 == match_order(st1, t, order_id)
           after == st2.orders[order_id]
           remaining == remaining_quantity(after)
       IN IF remaining = 0 THEN Ok(st2)
          ELSE IF time_in_force = "IOC"
          THEN Ok([unlock(st2, user, lock_asset(side),
                          lock_amount(side, price, remaining))
                     EXCEPT !.orders[order_id].status = "Cancelled"])
          ELSE Ok(refresh_best(
                   IF side = "Buy"
                   THEN [st2 EXCEPT !.buy_levels =
                           level_append(@, price, order_id, remaining)]
                   ELSE [st2 EXCEPT !.sell_levels =
                           level_append(@, price, order_id, remaining)]))

\* mutant: the caller is not compared with the owner
cancel_order_by_anyone(st, user, order_id) ==
    IF order_id \notin DOMAIN st.orders THEN Err(st, "OrderNotFound")
    ELSE LET order == st.orders[order_id]
             remaining == remaining_quantity(order)
         IN IF ~is_active(order) THEN Err(st, "OrderNotModifiable")
            ELSE LET st1 == unlock(st, order.user, lock_asset(order.side),
                                   lock_amount(order.side, order.price, remaining))
                     st2 == IF order.side = "Buy"
                            THEN [st1 EXCEPT !.buy_levels =
                                    level_remove(@, order.price, order_id, remaining)]
                            ELSE [st1 EXCEPT !.sell_levels =
                                    level_remove(@, order.price, order_id, remaining)]
                 IN Ok(refresh_best(
                        [st2 EXCEPT !.orders[order_id].status = "Cancelled"]))

\* CancelOrder (4.2.5): only the owner, only an order that is not terminal;
\* the remaining lock is released and the order leaves its level
cancel_order(st, user, order_id) ==
    IF order_id \notin DOMAIN st.orders THEN Err(st, "OrderNotFound")
    ELSE LET order == st.orders[order_id]
             remaining == remaining_quantity(order)
         IN IF order.user # user THEN Err(st, "Unauthorized")
            ELSE IF ~is_active(order) THEN Err(st, "OrderNotModifiable")
            ELSE LET st1 == unlock(st, order.user, lock_asset(order.side),
                                   lock_amount(order.side, order.price, remaining))
                     st2 == IF order.side = "Buy"
                            THEN [st1 EXCEPT !.buy_levels =
                                    level_remove(@, order.price, order_id, remaining)]
                            ELSE [st1 EXCEPT !.sell_levels =
                                    level_remove(@, order.price, order_id, remaining)]
                 IN Ok(refresh_best(
                        [st2 EXCEPT !.orders[order_id].status = "Cancelled"]))

PlaceOrder(user, side, price, quantity, time_in_force) ==
    /\ next_order_id <= MaxOrders
    /\ OCommit(place_order(OState, now, user, side, price, quantity,
                           time_in_force))
    /\ UNCHANGED <<now, sviews>>

CancelOrder(user, order_id) ==
    /\ OCommit(cancel_order(OState, user, order_id))
    /\ UNCHANGED <<now, sviews>>

ONext ==
    \/ \E u \in Traders, a \in MarketAssets : ObDeposit(u, a, MaxObSupply)
    \/ \E u \in Traders, s \in OrderSides, p \in Prices,
          q \in OrderQuantities, f \in TimesInForce :
          PlaceOrder(u, s, p, q, f)
    \/ \E u \in Traders, i \in OrderIds : CancelOrder(u, i)

SpecOrderBook == Init /\ [][ONext]_vars

\* the sum of the quantities of the first n trades of a sequence
RECURSIVE TradedQuantity(_, _)
TradedQuantity(seq, n) ==
    IF n = 0 THEN 0 ELSE seq[n].quantity + TradedQuantity(seq, n - 1)

\* the resting order a is matched before the resting order b of its side:
\* it has the better price, or the same price and an earlier place in the level
HasPriority(a, b) ==
    LET levels == IF a.side = "Buy" THEN buy_levels ELSE sell_levels
        Place(o) == CHOOSE i \in 1..Len(levels[o.price].orders) :
                        levels[o.price].orders[i] = o.id
    IN \/ (a.side = "Sell" /\ a.price < b.price)
       \/ (a.side = "Buy" /\ a.price > b.price)
       \/ (a.price = b.price /\ Place(a) < Place(b))

\* the orders resting on a side of the book
Resting(side) ==
    {i \in DOMAIN orders :
        /\ orders[i].side = side
        /\ LET levels == IF side = "Buy" THEN buy_levels ELSE sell_levels
           IN /\ orders[i].price \in DOMAIN levels
              /\ \E k \in 1..Len(levels[orders[i].price].orders) :
                    levels[orders[i].price].orders[k] = i}

\* C33: a limit order placed at a crossing price matches the best opposite
\* level in FIFO order: it produces trades; each trade is at the resting
\* order's price, for the smaller of what remained of the taker and of the
\* resting order; a resting order is matched only after every resting order
\* with priority over it (better price, or earlier at the same level) was
\* filled completely; and the filled quantities and statuses of the resting
\* orders and of the taker are updated.
C33_Step ==
    LET id == next_order_id
        taker == orders'[id]
        new == SubSeq(trades', Len(trades) + 1, Len(trades'))
        opposite == IF taker.side = "Buy" THEN "Sell" ELSE "Buy"
        MinOf(a, b) == IF a < b THEN a ELSE b
    IN next_order_id' = id + 1 =>
         /\ would_match(OState, taker.side, taker.price) => new # <<>>
         /\ \A k \in 1..Len(new) :
              LET tr == new[k]
                  before == orders[tr.maker_order_id]
                  after == orders'[tr.maker_order_id]
              IN /\ tr.taker_order_id = id
                 /\ tr.maker_order_id \in Resting(opposite)
                 /\ tr.price = before.price
                 /\ tr.quantity > 0
                 /\ tr.quantity =
                       MinOf(taker.quantity - TradedQuantity(new, k - 1),
                             remaining_quantity(before))
                 /\ after.filled_quantity = before.filled_quantity + tr.quantity
                 /\ after.status = IF after.filled_quantity = after.quantity
                                   THEN "Filled" ELSE "PartiallyFilled"
                 /\ \A j \in Resting(opposite) :
                       HasPriority(orders[j], before) =>
                          /\ \E n \in 1..(k - 1) : new[n].maker_order_id = j
                          /\ orders'[j].filled_quantity = orders'[j].quantity
         /\ new # <<>> =>
              /\ new[1].price = IF taker.side = "Buy" THEN best_ask ELSE best_bid
              /\ last_price' = new[Len(new)].price
         /\ taker.filled_quantity = TradedQuantity(new, Len(new))
         /\ taker.status =
               IF taker.filled_quantity = taker.quantity THEN "Filled"
               ELSE IF new = <<>> THEN
                      (IF taker.time_in_force = "IOC" THEN "Cancelled" ELSE "Open")
               ELSE IF taker.time_in_force = "IOC" THEN "Cancelled"
               ELSE "PartiallyFilled"

TerminalStatuses == {"Filled", "Cancelled", "Expired", "Rejected"}

====
